---- MODULE Spec2Model ----
(***************************************************************************)
(* Document Projection Engine of memoir: ProjectedSection and              *)
(* DocumentProjection (memoir/core/projections.py) driven by               *)
(* ProjectionService (memoir/services/projection.py).                      *)
(*                                                                         *)
(* Text is modelled as a sequence of whitespace-delimited chunks, so that  *)
(* the empty string is <<>>, concatenation is \o and len(text.split()) is  *)
(* Len.  Timestamps are modelled only by whether they are set.             *)
(***************************************************************************)
EXTENDS Integers, Sequences, FiniteSets, TLC

\* ------------------------------------------------------------------ bounds
\* Cap on a section's version counter in the service-level specification.
MaxVersion == 2
\* Cap on the document version counter in the service-level specification.
MaxDocVersion == 3
\* SpecHist starts from a fresh section or from one that has already been
\* rewritten PreFill times, and rewrites it at most HistSteps times more.
PreFill == 9
HistSteps == 3
\* SpecHist starts from a fresh projection or from one that has already been
\* marked updated DocPreFill times, and marks it at most DocSteps times more.
DocPreFill == 19
DocSteps == 2

\* SpecLife takes a section up to version MaxLifeVersion.
MaxLifeVersion == 3
\* SpecEdit runs at most MaxEditPasses update passes.
MaxEditPasses == 1
MaxWholePasses == 2
\* SpecPool makes at most MaxPoolCalls add_content calls.
MaxPoolCalls == 4
\* SpecOrder passes reorder_sections lists of at most MaxOrderLen ids.
MaxOrderLen == 3
\* SpecAi runs at most MaxAiPasses update passes.
MaxAiPasses == 2
\* SpecTheme makes at most MaxThemeCalls add_theme calls.
MaxThemeCalls == 4

\* ------------------------------------------------------- program constants
\* ProjectedSection._save_to_history keeps the last 10 versions.
SectionHistoryLimit == 10
\* DocumentProjection._save_version keeps the last 20 versions.
ProjectionHistoryLimit == 20
\* Theme strength in hundredths: the cap 1.0 and the step 0.1 of add_theme.
StrengthCap == 100
StrengthStep == 10

\* ------------------------------------------------------------ value spaces
EMPTY == "empty"
GENERATED == "generated"
LOCKED == "locked"
DRAFT == "draft"

REGENERATE == "regenerate"
EVOLVE == "evolve"
APPEND == "append"
REFRESH == "refresh"
UpdateMode == {REGENERATE, EVOLVE, APPEND, REFRESH}

None == "none"
\* A payload string that is no value of any enumeration.
UnknownValue == "bogus"
EmptyText == <<>>

VARIABLES
    pool,          \* ContentPool.content_ids of the project (a sequence)
    content_items, \* ids that have a stored ContentItem (_content_items keys)
    projections,   \* ids of the stored projections (_projections keys)
    projection,    \* the DocumentProjection stored under ProjectionId
    pass,          \* per update task: position and locals of update_projection
    call           \* the last call of the exposed surface and what it returned

vars == <<pool, content_items, projections, projection, pass, call>>

\* ------------------------------------------------------------- sequences
Range(s) == {s[i] : i \in 1..Len(s)}

\* python: s[-n:]
LastN(s, n) == IF Len(s) > n THEN SubSeq(s, Len(s) - n + 1, Len(s)) ELSE s

\* python: [x for x in s if x in keep]
RECURSIVE FilterSeq(_, _)
FilterSeq(s, keep) ==
    IF s = <<>> THEN <<>>
    ELSE IF Head(s) \in keep THEN <<Head(s)>> \o FilterSeq(Tail(s), keep)
         ELSE FilterSeq(Tail(s), keep)

\* ------------------------------------------------------ NarrativeContext
\* A theme name is a pair <<letters, casing>>: two names are the same word
\* written differently when only the casing differs.  str.lower() keeps the
\* letters and maps every casing to casing 0.
lower(name) == <<name[1], 0>>

DiscoveredTheme(theme, evidence, strength, source_ids) ==
    [theme |-> theme, evidence |-> evidence, strength |-> strength,
     source_content_ids |-> source_ids]

NewContext == [themes |-> <<>>]

\* Faulty variant: compares the names as written.
add_theme_case_sensitive(context, theme) ==
    LET hits == {i \in 1..Len(context.themes) :
                    context.themes[i].theme = theme.theme}
    IN  IF hits = {} THEN [context EXCEPT !.themes = Append(@, theme)]
        ELSE LET i == CHOOSE i \in hits : \A j \in hits : i <= j
             IN  [context EXCEPT
                    !.themes[i].evidence = @ \o theme.evidence,
                    !.themes[i].source_content_ids = @ \o theme.source_content_ids,
                    !.themes[i].strength =
                        IF @ + StrengthStep > StrengthCap THEN StrengthCap
                        ELSE @ + StrengthStep]

add_theme(context, theme) ==
    LET hits == {i \in 1..Len(context.themes) :
                    lower(context.themes[i].theme) = lower(theme.theme)}
    IN  IF hits = {} THEN [context EXCEPT !.themes = Append(@, theme)]
        ELSE LET i == CHOOSE i \in hits : \A j \in hits : i <= j
             IN  [context EXCEPT
                    !.themes[i].evidence = @ \o theme.evidence,
                    !.themes[i].source_content_ids = @ \o theme.source_content_ids,
                    !.themes[i].strength =
                        IF @ + StrengthStep > StrengthCap THEN StrengthCap
                        ELSE @ + StrengthStep]

\* ------------------------------------------------------ ProjectedSection
NewSection(id, content, state, source_ids, order) ==
    [id |-> id, content |-> content, summary |-> EmptyText,
     source_content_ids |-> source_ids, state |-> state,
     locked_at |-> FALSE, locked_by |-> None, lock_reason |-> None,
     order |-> order, version |-> 1, history |-> <<>>,
     last_content_snapshot |-> <<>>]

SectionVersion(s, trigger, user_id) ==
    [version |-> s.version, content |-> s.content, summary |-> s.summary,
     trigger |-> trigger, source_content_ids |-> s.source_content_ids,
     created_by |-> user_id]

\* Faulty variant: keeps the oldest ten entries (history[:10]).
_save_to_history_keep_oldest(s, trigger, user_id) ==
    IF s.content = EmptyText THEN s
    ELSE LET all == Append(s.history, SectionVersion(s, trigger, user_id))
         IN  [s EXCEPT !.history =
                 IF Len(all) > SectionHistoryLimit
                 THEN SubSeq(all, 1, SectionHistoryLimit) ELSE all]

_save_to_history(s, trigger, user_id) ==
    IF s.content = EmptyText THEN s
    ELSE [s EXCEPT !.history =
            LastN(Append(s.history, SectionVersion(s, trigger, user_id)),
                  SectionHistoryLimit)]

lock(s, user_id, reason) ==
    [s EXCEPT !.state = LOCKED, !.locked_at = TRUE,
              !.locked_by = user_id, !.lock_reason = reason]

\* Faulty variant: a section without content goes back to EMPTY.
unlock_to_empty(s) ==
    [s EXCEPT !.state = IF s.content = EmptyText THEN EMPTY ELSE GENERATED,
              !.locked_at = FALSE, !.locked_by = None, !.lock_reason = None]

unlock(s) ==
    [s EXCEPT !.state = GENERATED, !.locked_at = FALSE,
              !.locked_by = None, !.lock_reason = None]

start_editing(s) == [s EXCEPT !.state = DRAFT]

\* Faulty variant: replaces the content without saving it to the history.
finish_editing_no_history(s, new_content, lk, user_id) ==
    LET e == [s EXCEPT !.content = new_content, !.version = s.version + 1]
    IN  IF lk
        THEN [e EXCEPT !.state = LOCKED, !.locked_at = TRUE,
                       !.locked_by = user_id, !.lock_reason = "manually edited"]
        ELSE [e EXCEPT !.state = GENERATED]

\* Faulty variant: the version is incremented before the content is saved.
finish_editing_saves_late(s, new_content, lk, user_id) ==
    LET h == _save_to_history([s EXCEPT !.version = s.version + 1],
                              "manual_edit", user_id)
        e == [h EXCEPT !.content = new_content]
    IN  IF lk
        THEN [e EXCEPT !.state = LOCKED, !.locked_at = TRUE,
                       !.locked_by = user_id, !.lock_reason = "manually edited"]
        ELSE [e EXCEPT !.state = GENERATED]

finish_editing(s, new_content, lk, user_id) ==
    LET h == _save_to_history(s, "manual_edit", user_id)
        e == [h EXCEPT !.content = new_content, !.version = h.version + 1]
    IN  IF lk
        THEN [e EXCEPT !.state = LOCKED, !.locked_at = TRUE,
                       !.locked_by = user_id, !.lock_reason = "manually edited"]
        ELSE [e EXCEPT !.state = GENERATED]

\* Faulty variant: the version is incremented only together with the snapshot.
update_content_version_in_branch(s, new_content, source_ids, trigger) ==
    LET h == IF s.content # EmptyText
             THEN [_save_to_history(s, trigger, None)
                      EXCEPT !.version = s.version + 1]
             ELSE s
    IN  [h EXCEPT !.content = new_content,
                  !.source_content_ids = source_ids,
                  !.last_content_snapshot = source_ids,
                  !.state = GENERATED]

update_content(s, new_content, source_ids, trigger) ==
    LET h == IF s.content # EmptyText THEN _save_to_history(s, trigger, None)
             ELSE s
    IN  [h EXCEPT !.content = new_content,
                  !.source_content_ids = source_ids,
                  !.last_content_snapshot = source_ids,
                  !.state = GENERATED,
                  !.version = h.version + 1]

\* Index of the first history entry with the requested version, 0 if absent.
FindVersion(s, version) ==
    LET hits == {i \in 1..Len(s.history) : s.history[i].version = version}
    IN  IF hits = {} THEN 0 ELSE CHOOSE i \in hits : \A j \in hits : i <= j

\* Faulty variant: re-reads the entry by its position after the snapshot.
revert_to_version_by_index(s, version) ==
    LET i == FindVersion(s, version) IN
    IF i = 0 THEN [ok |-> FALSE, sec |-> s]
    ELSE LET h == _save_to_history(s, "revert", None)
             hist == h.history[i]
         IN  [ok |-> TRUE,
              sec |-> [h EXCEPT !.content = hist.content,
                               !.summary = hist.summary,
                               !.source_content_ids = hist.source_content_ids,
                               !.version = h.version + 1]]

\* Faulty variant: restores the entry without a snapshot of the current state.
revert_to_version_no_snapshot(s, version) ==
    LET i == FindVersion(s, version) IN
    IF i = 0 THEN [ok |-> FALSE, sec |-> s]
    ELSE LET hist == s.history[i]
         IN  [ok |-> TRUE,
              sec |-> [s EXCEPT !.content = hist.content,
                               !.summary = hist.summary,
                               !.source_content_ids = hist.source_content_ids,
                               !.version = s.version + 1]]

\* Faulty variant: takes the snapshot before it looks for the version.
revert_to_version_snapshot_first(s, version) ==
    LET i == FindVersion(s, version)
        h == _save_to_history(s, "revert", None)
    IN  IF i = 0 THEN [ok |-> FALSE, sec |-> h]
        ELSE LET hist == s.history[i]
             IN  [ok |-> TRUE,
                  sec |-> [h EXCEPT !.content = hist.content,
                                   !.summary = hist.summary,
                                   !.source_content_ids = hist.source_content_ids,
                                   !.version = h.version + 1]]

\* The loop variable hist keeps the entry it found even when the snapshot
\* taken by _save_to_history evicts that entry from the list.
revert_to_version(s, version) ==
    LET i == FindVersion(s, version) IN
    IF i = 0 THEN [ok |-> FALSE, sec |-> s]
    ELSE LET hist == s.history[i]
             h == _save_to_history(s, "revert", None)
         IN  [ok |-> TRUE,
              sec |-> [h EXCEPT !.content = hist.content,
                               !.summary = hist.summary,
                               !.source_content_ids = hist.source_content_ids,
                               !.version = h.version + 1]]

is_stale(s, current_content_ids) ==
    Range(current_content_ids) # Range(s.last_content_snapshot)

is_locked(s) == s.state = LOCKED

\* Faulty variant: every section that is not LOCKED can regenerate.
can_regenerate_unless_locked(s) == s.state # LOCKED

can_regenerate(s) == s.state \in {GENERATED, EMPTY}


\* ---------------------------------------------------- DocumentProjection
\* content_snapshot_ids is a Python list reference.  mark_updated stores the
\* list it is handed, and both callers hand it pool.get_filtered_ids(), which
\* returns the pool's own content_ids list: from then on the snapshot IS the
\* pool's list (snapshot_is_pool) and follows every later add_content.
NewProjection ==
    [sections |-> <<>>, version |-> 1, version_history |-> <<>>,
     content_snapshot_ids |-> <<>>, snapshot_is_pool |-> FALSE,
     word_count |-> 0, context |-> NewContext]

content_snapshot_ids(proj, pool_ids) ==
    IF proj.snapshot_is_pool THEN pool_ids ELSE proj.content_snapshot_ids

\* Position of the section with this id in proj.sections, 0 if absent.
get_section(proj, section_id) ==
    LET hits == {i \in 1..Len(proj.sections) : proj.sections[i].id = section_id}
    IN  IF hits = {} THEN 0 ELSE CHOOSE i \in hits : \A j \in hits : i <= j

RECURSIVE SumWords(_)
SumWords(secs) ==
    IF secs = <<>> THEN 0 ELSE Len(Head(secs).content) + SumWords(Tail(secs))

_update_stats(proj) == [proj EXCEPT !.word_count = SumWords(proj.sections)]

add_section(proj, section) ==
    _update_stats([proj EXCEPT !.sections =
        Append(proj.sections, [section EXCEPT !.order = Len(proj.sections)])])

\* Position of the last entry of ids equal to id, 0 if absent.
LastPosition(ids, id) ==
    LET hits == {i \in 1..Len(ids) : ids[i] = id}
    IN  IF hits = {} THEN 0 ELSE CHOOSE i \in hits : \A j \in hits : j <= i

SectionIdsOf(secs) == [i \in 1..Len(secs) |-> secs[i].id]

\* _reorder_sections numbers the entries of the list in order.  Entries with
\* the same id are one object, which keeps the last number written to it.
_reorder_sections(secs) ==
    [i \in 1..Len(secs) |->
        [secs[i] EXCEPT !.order = LastPosition(SectionIdsOf(secs), secs[i].id) - 1]]

\* remove_section: pops the first section with this id, renumbers, updates
\* the statistics; FALSE when there is none.
remove_section(proj, section_id) ==
    LET i == get_section(proj, section_id) IN
    IF i = 0 THEN [ok |-> FALSE, proj |-> proj]
    ELSE [ok |-> TRUE,
          proj |-> _update_stats([proj EXCEPT !.sections =
                     _reorder_sections(SubSeq(proj.sections, 1, i - 1)
                         \o SubSeq(proj.sections, i + 1, Len(proj.sections)))])]

\* reorder_sections: the new list has one entry per known id of section_ids,
\* in that order (an id given twice gives two entries of the one section);
\* the section's order is its index in section_ids, the last one if it is
\* given more than once.  Sections not named are not in the new list.
reorder_sections(proj, section_ids) ==
    LET known == FilterSeq(section_ids, Range(SectionIdsOf(proj.sections)))
    IN  [proj EXCEPT !.sections =
            [k \in 1..Len(known) |->
                [proj.sections[get_section(proj, known[k])]
                    EXCEPT !.order = LastPosition(section_ids, known[k]) - 1]]]

\* python: [s for s in self.sections if <i \in keep>], as section ids
RECURSIVE SelectIds(_, _, _)
SelectIds(secs, keep, i) ==
    IF i > Len(secs) THEN <<>>
    ELSE IF i \in keep THEN <<secs[i].id>> \o SelectIds(secs, keep, i + 1)
         ELSE SelectIds(secs, keep, i + 1)

get_locked_sections(proj) ==
    SelectIds(proj.sections,
              {i \in 1..Len(proj.sections) : is_locked(proj.sections[i])}, 1)

\* Faulty variant: every section, whatever its state.
get_regeneratable_sections_any_state(proj) ==
    SelectIds(proj.sections, 1..Len(proj.sections), 1)

get_regeneratable_sections(proj) ==
    SelectIds(proj.sections,
              {i \in 1..Len(proj.sections) : can_regenerate(proj.sections[i])}, 1)

get_stale_sections(proj, current_content_ids) ==
    SelectIds(proj.sections,
              {i \in 1..Len(proj.sections) :
                  /\ can_regenerate(proj.sections[i])
                  /\ is_stale(proj.sections[i], current_content_ids)}, 1)

ProjectionVersion(proj, pool_ids, update_mode, change_summary) ==
    [version |-> proj.version, trigger |-> "update",
     update_mode |-> update_mode,
     section_count |-> Len(proj.sections),
     word_count |-> proj.word_count,
     content_item_count |-> Len(content_snapshot_ids(proj, pool_ids)),
     change_summary |-> change_summary]

_save_version(proj, pool_ids, update_mode, change_summary) ==
    [proj EXCEPT !.version_history =
        LastN(Append(proj.version_history,
                     ProjectionVersion(proj, pool_ids, update_mode, change_summary)),
              ProjectionHistoryLimit)]

\* Faulty variant: increments the version without recording the old one.
mark_updated_no_record(proj, pool_ids, update_mode, change_summary) ==
    _update_stats([proj EXCEPT !.version = proj.version + 1,
                               !.content_snapshot_ids = <<>>,
                               !.snapshot_is_pool = TRUE])

\* Both callers pass the pool's own list as content_ids.
mark_updated(proj, pool_ids, update_mode, change_summary) ==
    LET v == _save_version(proj, pool_ids, update_mode, change_summary)
    IN  _update_stats([v EXCEPT !.version = v.version + 1,
                                !.content_snapshot_ids = <<>>,
                                !.snapshot_is_pool = TRUE])


\* A pure read.  available_modes lists, per mode offered, the number of
\* sections it would touch.
get_update_options(proj, current_content_ids, pool_ids) ==
    LET stale_sections == get_stale_sections(proj, current_content_ids)
        regeneratable == get_regeneratable_sections(proj)
        locked == get_locked_sections(proj)
        new_content_count ==
            Cardinality(Range(current_content_ids)
                            \ Range(content_snapshot_ids(proj, pool_ids)))
    IN  [has_new_content |-> new_content_count > 0,
         new_content_count |-> new_content_count,
         stale_section_count |-> Len(stale_sections),
         stale_section_ids |-> stale_sections,
         regeneratable_count |-> Len(regeneratable),
         locked_count |-> Len(locked),
         available_modes |-> << <<EVOLVE, Len(stale_sections)>>,
                                <<REGENERATE, Len(regeneratable)>>,
                                <<REFRESH, Len(stale_sections)>> >>]

\* ------------------------------------------------- ProjectionService: text
\* Every stored item of the model carries text, so _extract_texts yields one
\* text per item.  The service runs without an AI backend (self._ai is None),
\* so synthesis is the deterministic stub: a header chunk naming the topic
\* kind and the item count, and the preview of the first text.
_stub_generate_section(topic, items) ==
    << <<topic, Len(items)>>, <<"preview", Head(items)>> >>

_generate_section_content(topic, items) ==
    IF items = <<>> THEN EmptyText ELSE _stub_generate_section(topic, items)

_evolve_section_content(topic, existing_content, items) ==
    IF items = <<>> THEN existing_content
    ELSE IF existing_content # EmptyText
         THEN existing_content \o << <<"integrated", 0>> >>
                               \o _stub_generate_section(topic, items)
         ELSE _stub_generate_section(topic, items)

\* ------------------------------------- ProjectionService._update_section
\* _update_section up to its await: does this mode reach a synthesis call
\* for section s, or return at once?
Suspends(s, mode, items) ==
    CASE mode = REGENERATE -> TRUE
      [] mode = EVOLVE -> TRUE
      [] mode = APPEND -> FilterSeq(items, Range(items) \ Range(s.last_content_snapshot)) # <<>>
      [] mode = REFRESH -> is_stale(s, items)

\* The items of content_items that are not in the section's snapshot.
NewItems(s, items) ==
    FilterSeq(items, Range(items) \ Range(s.last_content_snapshot))

\* The arguments _update_section passes to the synthesis call of each mode:
\* the topic, the content items and, for the integrate call of EVOLVE, the
\* section's existing content.
SynthesisArgs(s, mode, items) ==
    CASE mode = REGENERATE ->
            [topic |-> "section", existing_content |-> EmptyText, items |-> items]
      [] mode = EVOLVE ->
            [topic |-> "section", existing_content |-> s.content, items |-> items]
      [] mode = APPEND ->
            [topic |-> "additional", existing_content |-> EmptyText,
             items |-> NewItems(s, items)]
      [] mode = REFRESH ->
            [topic |-> "section", existing_content |-> EmptyText, items |-> items]

\* The value the awaited synthesis call will return; its arguments are
\* evaluated before the call suspends.
Synthesis(s, mode, items) ==
    LET a == SynthesisArgs(s, mode, items) IN
    CASE mode = REGENERATE -> _generate_section_content(a.topic, a.items)
      [] mode = EVOLVE ->
            _evolve_section_content(a.topic, a.existing_content, a.items)
      [] mode = APPEND -> _generate_section_content(a.topic, a.items)
      [] mode = REFRESH -> _generate_section_content(a.topic, a.items)

\* The service holds a synthesis backend (self._ai) or None.  A call to a
\* backend returns text or raises; with no backend there is nothing to call.
Backend == "ai"
Outcomes(ai) == IF ai = None THEN {"unavailable"} ELSE {"ok", "raises"}

\* Does the awaited call reach the backend?  Not without texts, and
\* _evolve_section_content not without existing content.
CallsBackend(s, mode, items) ==
    CASE mode = EVOLVE -> items # <<>> /\ s.content # EmptyText
      [] mode = APPEND ->
            FilterSeq(items, Range(items) \ Range(s.last_content_snapshot)) # <<>>
      [] OTHER -> items # <<>>

\* Faulty variant: a backend that raises leaves the call without text.
SynthesisWith_no_fallback(outcome, s, mode, items) ==
    IF CallsBackend(s, mode, items) /\ outcome # "unavailable"
    THEN IF outcome = "ok" THEN << <<"ai", mode>> >> ELSE EmptyText
    ELSE Synthesis(s, mode, items)

\* The value the awaited call returns under this outcome of the backend:
\* the backend's text, or the stub's after an exception or with no backend.
SynthesisWith(outcome, s, mode, items) ==
    IF CallsBackend(s, mode, items) /\ outcome = "ok"
    THEN << <<"ai", mode>> >>
    ELSE Synthesis(s, mode, items)

\* Faulty variant: APPEND replaces the content by the synthesized text.
Resume_append_replaces(s, mode, items, result) ==
    CASE mode = REGENERATE -> update_content(s, result, items, "regeneration")
      [] mode = EVOLVE -> update_content(s, result, items, "evolution")
      [] mode = APPEND -> update_content(s, result, items, "append")
      [] mode = REFRESH -> update_content(s, result, items, "refresh")

\* _update_section from the return of the awaited call: the write.
Resume(s, mode, items, result) ==
    CASE mode = REGENERATE -> update_content(s, result, items, "regeneration")
      [] mode = EVOLVE -> update_content(s, result, items, "evolution")
      [] mode = APPEND -> update_content(s, s.content \o result, items, "append")
      [] mode = REFRESH -> update_content(s, result, items, "refresh")


\* ------------------------------------------------------ model value sets
ItemIds == {1}               \* content ids added through add_content_item
LaterItemIds == {3}          \* an item stored after the first updates (SpecAi)
EventIds == {2}              \* content ids added by a content.created event
Tasks == {1, 2}              \* concurrently running update_projection calls
SectionIds == {"s1", "s2"}   \* ids of the sections generate_projection makes
UnknownSection == "sX"
ProjectionId == "p1"
UnknownProjection == "pX"
Users == {"u1"}
EditTexts == {<< <<"edited", 0>> >>}
\* The (projection id, section id) pairs the user calls name: an existing
\* section, an unknown section, an unknown projection.
UserTargets == {<<ProjectionId, "s1">>, <<ProjectionId, UnknownSection>>,
                <<UnknownProjection, "s1">>}

Idle == [pc |-> "idle", mode |-> None, cands |-> <<>>, idx |-> 0,
         items |-> <<>>, new_content_ids |-> <<>>, result |-> EmptyText,
         locked_at_start |-> {}, n_ids |-> 0, ai |-> None,
         outcome |-> None]

Call(op, sid, arg, ret) ==
    [op |-> op, pid |-> None, sid |-> sid, arg |-> arg, ret |-> ret]

UserCall(op, pid, sid, arg, ret) ==
    [op |-> op, pid |-> pid, sid |-> sid, arg |-> arg, ret |-> ret]

InFlight == Cardinality({t \in Tasks : pass[t].pc = "synth"})

Init ==
    /\ pool = <<>>
    /\ content_items = {}
    /\ projections = {}
    /\ projection = NewProjection
    /\ pass = [t \in Tasks |-> Idle]
    /\ call = Call("init", None, 0, TRUE)

\* ------------------------------------------------------------ ContentPool
add_content(pool_ids, content_id) ==
    IF content_id \in Range(pool_ids) THEN pool_ids
    ELSE Append(pool_ids, content_id)

get_new_content_ids(pool_ids, since_ids) ==
    FilterSeq(pool_ids, Range(pool_ids) \ Range(since_ids))

\* ProjectionService._update_narrative_context: nothing without items; a
\* backend that answers yields a theme, added with the ids of the items given;
\* a failing or missing backend leaves the themes, and context.update() only
\* stamps the time.
ExtractedTheme == <<"family", 1>>

_update_narrative_context(context, new_items, outcome) ==
    IF new_items = <<>> \/ outcome # "ok" THEN context
    ELSE add_theme(context,
            DiscoveredTheme(ExtractedTheme, <<>>, StrengthCap, new_items))

\* update_projection before it selects its candidates: when the pool holds
\* ids that the projection's snapshot does not, the narrative context is
\* updated from the stored items among them.  The coroutine awaited here
\* has no await of its own, so the step is part of the start of the pass.
ContextUpdated(proj, pool_ids, stored, outcome) ==
    LET new_content_ids ==
            get_new_content_ids(pool_ids, content_snapshot_ids(proj, pool_ids))
    IN  IF new_content_ids = <<>> THEN proj
        ELSE [proj EXCEPT !.context =
                _update_narrative_context(@, FilterSeq(new_content_ids, stored),
                                          outcome)]

\* ProjectionService.add_content_item
AddContentItem(c) ==
    /\ \A d \in Range(pool) : d < c
    /\ content_items' = content_items \cup {c}
    /\ pool' = add_content(pool, c)
    /\ call' = Call("add_content_item", None, 0, TRUE)
    /\ UNCHANGED <<projections, projection, pass>>

\* ProjectionService._handle_content_created (auto_update_on_content off)
ContentCreated(c) ==
    /\ \A d \in Range(pool) : d < c
    /\ pool' = add_content(pool, c)
    /\ call' = Call("content.created", None, 0, TRUE)
    /\ UNCHANGED <<content_items, projections, projection, pass>>

\* ------------------------------------------------- generate_projection
\* Thematic style with suggested_sections naming two sections.
RECURSIVE AddSections(_, _, _)
AddSections(proj, ids, items) ==
    IF ids = <<>> THEN proj
    ELSE LET content == _generate_section_content("section", items)
             sec == NewSection(Head(ids), content,
                               IF content # EmptyText THEN GENERATED ELSE EMPTY,
                               items, Len(proj.sections))
         IN  AddSections(add_section(proj, sec), Tail(ids), items)

generate_projection(pool_ids, stored) ==
    LET items == FilterSeq(pool_ids, stored)
        proj == AddSections(NewProjection, <<"s1", "s2">>, items)
    IN  mark_updated(proj, pool_ids, REGENERATE, <<"initial", 0, 0>>)

GenerateProjection ==
    /\ projections = {}
    /\ projections' = {ProjectionId}
    /\ projection' = generate_projection(pool, content_items)
    /\ call' = Call("generate_projection", None, 0, TRUE)
    /\ UNCHANGED <<pool, content_items, pass>>


\* --------------------------------------------------- update_projection
\* update_projection is a coroutine: it runs without interruption up to an
\* await of a synthesis call, where other calls of the service may run, and
\* resumes from there.  The synthesis backends in the repository are
\* synchronous, so on one event loop the awaited call returns without
\* yielding; the model takes every such await as a point where the loop may
\* switch, which is what the code permits once a backend yields.
\* pass[t] holds the locals of task t across the await:
\* sections_to_update (cands), the loop position (idx), content_items (items)
\* and the value the awaited call returns (result).  locked_at_start is not
\* a local of the code: it records, for the properties, which sections were
\* LOCKED when the call started; n_ids likewise records how many ids the
\* pool's list held when the call started.  ai is the service's backend
\* (self._ai) and outcome what the awaited call to it does.

Section(proj, section_id) == proj.sections[get_section(proj, section_id)]

\* Next position >= i of sections_to_update whose _update_section reaches a
\* synthesis call; positions before it return without writing or awaiting.
RECURSIVE NextSuspending(_, _, _, _, _)
NextSuspending(proj, cands, i, mode, items) ==
    IF i > Len(cands) THEN i
    ELSE IF Suspends(Section(proj, cands[i]), mode, items) THEN i
         ELSE NextSuspending(proj, cands, i + 1, mode, items)

\* Faulty variant: REGENERATE selects the stale sections, like the other modes.
sections_to_update_stale_only(proj, mode, content_ids) ==
    get_stale_sections(proj, content_ids)

sections_to_update(proj, mode, content_ids) ==
    IF mode = REGENERATE THEN get_regeneratable_sections(proj)
    ELSE get_stale_sections(proj, content_ids)

change_summary(mode, cands, new_content_ids) ==
    <<mode, Len(cands), Len(new_content_ids)>>

\* Run task t's loop from position i of its candidates: either suspend at the
\* next synthesis call or, past the last candidate, mark the document updated.
Continue(t, proj, mode, cands, i, items, new_content_ids, locked, n_ids, ai) ==
    LET j == NextSuspending(proj, cands, i, mode, items) IN
    IF j > Len(cands)
    THEN /\ projection' = mark_updated(proj, pool, mode,
                change_summary(mode, cands, new_content_ids))
         /\ pass' = [pass EXCEPT ![t] = Idle]
         /\ call' = Call("update_projection", None, Cardinality(locked), TRUE)
    ELSE /\ projection' = proj
         /\ \E outcome \in Outcomes(ai) :
               pass' = [pass EXCEPT ![t] =
                [pc |-> "synth", mode |-> mode, cands |-> cands, idx |-> j,
                 items |-> items, new_content_ids |-> new_content_ids,
                 result |-> SynthesisWith(outcome, Section(proj, cands[j]),
                                          mode, items),
                 locked_at_start |-> locked, n_ids |-> n_ids, ai |-> ai,
                 outcome |-> outcome]]
         /\ call' = Call("await", None, 0, TRUE)

\* update_projection from its start to its first await (or to its return).
\* Without a backend the narrative-context step leaves the themes alone.
StartPass(t, mode) ==
    /\ projections = {ProjectionId}
    /\ pass[t].pc = "idle"
    /\ projection.version + InFlight < MaxDocVersion
    /\ \A i \in 1..Len(projection.sections) :
          projection.sections[i].version + InFlight < MaxVersion
    /\ LET items == FilterSeq(pool, content_items)
       IN  Continue(t, ContextUpdated(projection, pool, content_items,
                                      "unavailable"), mode,
                    sections_to_update(projection, mode, pool), 1, items,
                    get_new_content_ids(pool,
                        content_snapshot_ids(projection, pool)),
                    Range(get_locked_sections(projection)), Len(pool), None)
    /\ UNCHANGED <<pool, content_items, projections>>

\* The awaited synthesis call returns: write the section, go on with the loop.
SectionDone(t) ==
    /\ pass[t].pc = "synth"
    /\ LET p == pass[t]
           i == get_section(projection, p.cands[p.idx])
           proj == [projection EXCEPT !.sections[i] =
                        Resume(projection.sections[i], p.mode, p.items, p.result)]
       IN  Continue(t, proj, p.mode, p.cands, p.idx + 1, p.items,
                    p.new_content_ids, p.locked_at_start, p.n_ids, p.ai)
    /\ UNCHANGED <<pool, content_items, projections>>

\* The caller abandons the task while it is suspended at a synthesis call.
Abandon(t) ==
    /\ pass[t].pc = "synth"
    /\ pass' = [pass EXCEPT ![t] = Idle]
    /\ call' = Call("cancel", None, 0, TRUE)
    /\ UNCHANGED <<pool, content_items, projections, projection>>


\* ------------------------------------- lock / unlock / edit / revert
Found(projection_id, section_id) ==
    /\ projection_id \in projections
    /\ get_section(projection, section_id) # 0

\* ProjectionService.lock_section -> DocumentProjection.lock_section
LockSection(projection_id, section_id, user_id) ==
    /\ IF Found(projection_id, section_id)
       THEN LET i == get_section(projection, section_id) IN
            /\ projection' = [projection EXCEPT !.sections[i] =
                                 lock(projection.sections[i], user_id, "approved")]
            /\ call' = UserCall("lock_section", projection_id, section_id, 0, TRUE)
       ELSE /\ projection' = projection
            /\ call' = UserCall("lock_section", projection_id, section_id, 0, FALSE)
    /\ UNCHANGED <<pool, content_items, projections, pass>>

\* ProjectionService.unlock_section -> DocumentProjection.unlock_section
UnlockSection(projection_id, section_id) ==
    /\ IF Found(projection_id, section_id)
       THEN LET i == get_section(projection, section_id) IN
            /\ projection' = [projection EXCEPT !.sections[i] =
                                 unlock(projection.sections[i])]
            /\ call' = UserCall("unlock_section", projection_id, section_id, 0, TRUE)
       ELSE /\ projection' = projection
            /\ call' = UserCall("unlock_section", projection_id, section_id, 0, FALSE)
    /\ UNCHANGED <<pool, content_items, projections, pass>>

\* ProjectionService.edit_section
EditSection(projection_id, section_id, new_content, lk, user_id) ==
    /\ IF Found(projection_id, section_id)
       THEN LET i == get_section(projection, section_id) IN
            /\ projection.sections[i].version + InFlight < MaxVersion
            /\ projection' = _update_stats([projection EXCEPT !.sections[i] =
                    finish_editing(projection.sections[i], new_content, lk, user_id)])
            /\ call' = UserCall("edit_section", projection_id, section_id,
                                <<new_content, lk, user_id>>, TRUE)
       ELSE /\ projection' = projection
            /\ call' = UserCall("edit_section", projection_id, section_id,
                                <<new_content, lk, user_id>>, FALSE)
    /\ UNCHANGED <<pool, content_items, projections, pass>>

\* ProjectionService.get_update_options: None for an unknown projection,
\* else the projection's options against the pool's ids.
GetUpdateOptions(projection_id) ==
    /\ call' = IF projection_id \in projections
               THEN UserCall("get_update_options", projection_id, None,
                             get_update_options(projection, pool, pool), TRUE)
               ELSE UserCall("get_update_options", projection_id, None, 0, FALSE)
    /\ UNCHANGED <<pool, content_items, projections, projection, pass>>

\* ProjectionService.revert_section
RevertSection(projection_id, section_id, version) ==
    /\ IF Found(projection_id, section_id)
       THEN LET i == get_section(projection, section_id)
                r == revert_to_version(projection.sections[i], version)
            IN  /\ r.ok => projection.sections[i].version + InFlight < MaxVersion
                /\ projection' = [projection EXCEPT !.sections[i] = r.sec]
                /\ call' = UserCall("revert_section", projection_id, section_id, version, r.ok)
       ELSE /\ projection' = projection
            /\ call' = UserCall("revert_section", projection_id, section_id, version, FALSE)
    /\ UNCHANGED <<pool, content_items, projections, pass>>

\* --------------------------------------------------------- specification
Next ==
    \/ \E c \in ItemIds : AddContentItem(c)
    \/ \E c \in EventIds : ContentCreated(c)
    \/ GenerateProjection
    \/ \E mode \in UpdateMode : StartPass(1, mode)
    \/ \E t \in Tasks : SectionDone(t)
    \/ \E t \in Tasks : Abandon(t)
    \/ \E o \in UserTargets, u \in Users :
            LockSection(o[1], o[2], u)
    \/ \E o \in UserTargets :
            UnlockSection(o[1], o[2])
    \/ \E o \in UserTargets, text \in EditTexts, lk \in BOOLEAN, u \in Users :
            EditSection(o[1], o[2], text, lk, u)
    \/ \E o \in UserTargets, v \in 1..MaxVersion :
            RevertSection(o[1], o[2], v)
    \/ \E pid \in {ProjectionId, UnknownProjection} : GetUpdateOptions(pid)

Spec == Init /\ [][Next]_vars


\* ------------------------------------------- one call at a time
\* The service driven from a single event loop with synthesis backends that
\* do not yield: a call runs to its return before the next one starts, so
\* between the steps of an update pass nothing else happens.
Quiet == InFlight = 0

\* What the record of a handled event keeps of it: the strings of its
\* payload and whether the handler raised ValueError.
Request(payload, raised) == [request |-> payload, raised |-> raised]

\* ProjectionService._handle_regenerate_section, run to its return: no event
\* (ret FALSE) for an unknown projection or section and for a section that
\* cannot regenerate, else one _update_section in the requested mode.
RegenerateSection(projection_id, section_id, mode) ==
    /\ IF /\ Found(projection_id, section_id)
          /\ can_regenerate(Section(projection, section_id))
       THEN IF mode \notin UpdateMode
            THEN \* UpdateMode(mode_str) raises ValueError
                 /\ projection' = projection
                 /\ call' = UserCall("regenerate_section", projection_id,
                                     section_id, Request(mode, TRUE), FALSE)
            ELSE LET i == get_section(projection, section_id)
                     sec == projection.sections[i]
                     items == FilterSeq(pool, content_items)
                 IN  /\ sec.version < MaxVersion
                     /\ projection' = [projection EXCEPT !.sections[i] =
                           IF Suspends(sec, mode, items)
                           THEN Resume(sec, mode, items,
                                       Synthesis(sec, mode, items))
                           ELSE sec]
                     /\ call' = UserCall("regenerate_section", projection_id,
                                         section_id, Request(mode, FALSE),
                                         TRUE)
       ELSE /\ projection' = projection
            /\ call' = UserCall("regenerate_section", projection_id,
                                section_id, Request(mode, FALSE), FALSE)
    /\ UNCHANGED <<pool, content_items, projections, pass>>

NextSeq ==
    \/ \E c \in ItemIds : Quiet /\ AddContentItem(c)
    \/ \E c \in EventIds : Quiet /\ ContentCreated(c)
    \/ Quiet /\ GenerateProjection
    \/ \E mode \in UpdateMode : Quiet /\ StartPass(1, mode)
    \/ SectionDone(1)
    \/ \E o \in UserTargets, u \in Users :
          Quiet /\ LockSection(o[1], o[2], u)
    \/ \E o \in UserTargets :
          Quiet /\ UnlockSection(o[1], o[2])
    \/ \E o \in UserTargets, text \in EditTexts, lk \in BOOLEAN, u \in Users :
          Quiet /\ EditSection(o[1], o[2], text, lk, u)
    \/ \E o \in UserTargets, v \in 1..MaxVersion :
          Quiet /\ RevertSection(o[1], o[2], v)
    \/ \E pid \in {ProjectionId, UnknownProjection} :
          Quiet /\ GetUpdateOptions(pid)
    \/ \E o \in UserTargets, mode \in UpdateMode :
          Quiet /\ RegenerateSection(o[1], o[2], mode)

SpecSeq == Init /\ [][NextSeq]_vars

\* ------------------------------------------- two concurrent updates
\* update_projection run from start to return with no other call in between.
\* Faulty variant: the synthesis for a candidate reads the section processed
\* just before it.
RECURSIVE UpdateSections_chained(_, _, _, _, _)
UpdateSections_chained(proj, cands, i, mode, items) ==
    IF i > Len(cands) THEN proj
    ELSE LET k == get_section(proj, cands[i])
             sec == proj.sections[k]
             prev == IF i > 1 THEN proj.sections[get_section(proj, cands[i - 1])]
                     ELSE sec
         IN  IF Suspends(sec, mode, items)
             THEN UpdateSections_chained(
                    [proj EXCEPT !.sections[k] =
                        Resume(sec, mode, items, Synthesis(prev, mode, items))],
                    cands, i + 1, mode, items)
             ELSE UpdateSections_chained(proj, cands, i + 1, mode, items)

RECURSIVE UpdateSections(_, _, _, _, _)
UpdateSections(proj, cands, i, mode, items) ==
    IF i > Len(cands) THEN proj
    ELSE LET k == get_section(proj, cands[i])
             sec == proj.sections[k]
         IN  IF Suspends(sec, mode, items)
             THEN UpdateSections(
                    [proj EXCEPT !.sections[k] =
                        Resume(sec, mode, items, Synthesis(sec, mode, items))],
                    cands, i + 1, mode, items)
             ELSE UpdateSections(proj, cands, i + 1, mode, items)

update_projection(proj, pool_ids, stored, mode) ==
    LET items == FilterSeq(pool_ids, stored)
        new_ids == get_new_content_ids(pool_ids, content_snapshot_ids(proj, pool_ids))
        cands == sections_to_update(proj, mode, pool_ids)
    IN  mark_updated(UpdateSections(proj, cands, 1, mode, items), pool_ids, mode,
                     change_summary(mode, cands, new_ids))

\* The projection the two updates start from: generated when the pool held
\* exactly the stored items; the pool may have received event ids since.
RaceBase == generate_projection(FilterSeq(pool, content_items), content_items)

InitRace ==
    /\ content_items \in SUBSET ItemIds
    /\ \E ev \in SUBSET EventIds :
          pool = FilterSeq(<<1, 2>>, content_items \cup ev)
    /\ projections = {ProjectionId}
    /\ projection = RaceBase
    /\ pass = [t \in Tasks |-> Idle]
    /\ call = Call("init", None, 0, TRUE)

\* Two update_projection calls in all, at most one per task at a time.
RaceStart(t, mode) ==
    /\ (projection.version - RaceBase.version) + InFlight < 2
    /\ pass[t].pc = "idle"
    /\ LET items == FilterSeq(pool, content_items)
       IN  Continue(t, ContextUpdated(projection, pool, content_items,
                                      "unavailable"), mode,
                    sections_to_update(projection, mode, pool), 1, items,
                    get_new_content_ids(pool,
                        content_snapshot_ids(projection, pool)),
                    Range(get_locked_sections(projection)), Len(pool), None)
    /\ UNCHANGED <<pool, content_items, projections>>

NextRace ==
    \/ \E t \in Tasks, mode \in UpdateMode : RaceStart(t, mode)
    \/ \E t \in Tasks : SectionDone(t)

SpecRace == InitRace /\ [][NextRace]_vars

\* ------------------------------------------------- event handlers
\* ProjectionService.handle dispatching projection.generate,
\* projection.update and projection.regenerate_section, each handler run to
\* its return.
ProjectionStyle ==
    {"chronological", "thematic", "by_contributor", "questions", "freeform"}
ProjectionLength == {"summary", "standard", "comprehensive"}
THEMATIC == "thematic"
STANDARD == "standard"

\* _parse_config never raises: a string that is no value of the enumeration
\* is replaced by the default.
_parse_config(style, length) ==
    [style |-> IF style \in ProjectionStyle THEN style ELSE THEMATIC,
     length |-> IF length \in ProjectionLength THEN length ELSE STANDARD]

\* Styles whose generation is _generate_thematic, and an unknown one.
RequestStyles == {"thematic", "freeform", UnknownValue}
RequestLengths == {"standard", "summary", UnknownValue}
RequestModes == UpdateMode \cup {UnknownValue}

\* _handle_generate: parse the config, generate and store the projection.
HandleGenerate(style, length) ==
    /\ projections = {}
    /\ LET config == _parse_config(style, length)
       IN  /\ config.style \in {THEMATIC, "questions", "freeform"}
           /\ projections' = {ProjectionId}
           /\ projection' = generate_projection(pool, content_items)
           /\ call' = UserCall("projection.generate", ProjectionId, None,
                               Request(<<style, length>>, FALSE), TRUE)
    /\ UNCHANGED <<pool, content_items, pass>>

\* Faulty variant: the listed sections are updated whatever their state.
RECURSIVE UpdateListed_any_state(_, _, _, _)
UpdateListed_any_state(proj, section_ids, mode, items) ==
    IF section_ids = <<>> THEN proj
    ELSE LET k == get_section(proj, Head(section_ids))
         IN  IF k # 0 /\ Suspends(proj.sections[k], mode, items)
             THEN UpdateListed_any_state(
                    [proj EXCEPT !.sections[k] =
                        Resume(proj.sections[k], mode, items,
                               Synthesis(proj.sections[k], mode, items))],
                    Tail(section_ids), mode, items)
             ELSE UpdateListed_any_state(proj, Tail(section_ids), mode, items)

\* The section-scoped loop of _handle_update.
RECURSIVE UpdateListed(_, _, _, _)
UpdateListed(proj, section_ids, mode, items) ==
    IF section_ids = <<>> THEN proj
    ELSE LET k == get_section(proj, Head(section_ids))
         IN  IF k # 0 /\ can_regenerate(proj.sections[k])
                      /\ Suspends(proj.sections[k], mode, items)
             THEN UpdateListed(
                    [proj EXCEPT !.sections[k] =
                        Resume(proj.sections[k], mode, items,
                               Synthesis(proj.sections[k], mode, items))],
                    Tail(section_ids), mode, items)
             ELSE UpdateListed(proj, Tail(section_ids), mode, items)

\* _handle_update: the call record names the listed section ids (sid); no
\* event for an unknown projection; UpdateMode(mode_str)
\* raises on an unknown mode; then the listed sections or the whole update.
HandleUpdate(projection_id, mode, section_ids) ==
    /\ IF projection_id \notin projections
       THEN /\ projection' = projection
            /\ call' = UserCall("projection.update", projection_id, section_ids,
                                Request(mode, FALSE), FALSE)
       ELSE IF mode \notin UpdateMode
       THEN /\ projection' = projection
            /\ call' = UserCall("projection.update", projection_id, section_ids,
                                Request(mode, TRUE), FALSE)
       ELSE /\ projection.version < MaxDocVersion
            /\ \A i \in 1..Len(projection.sections) :
                  projection.sections[i].version < MaxVersion
            /\ projection' =
                  IF section_ids # <<>>
                  THEN UpdateListed(projection, section_ids, mode,
                                    FilterSeq(pool, content_items))
                  ELSE update_projection(projection, pool, content_items, mode)
            /\ call' = UserCall("projection.update", projection_id, section_ids,
                                Request(mode, FALSE), TRUE)
    /\ UNCHANGED <<pool, content_items, projections, pass>>

NextEvt ==
    \/ \E c \in ItemIds : AddContentItem(c)
    \/ \E c \in EventIds : ContentCreated(c)
    \/ \E style \in RequestStyles, length \in RequestLengths :
          HandleGenerate(style, length)
    \/ \E pid \in {ProjectionId, UnknownProjection}, mode \in RequestModes,
          section_ids \in {<<>>, <<"s1">>, <<UnknownSection>>} :
          HandleUpdate(pid, mode, section_ids)
    \/ \E o \in UserTargets, mode \in RequestModes :
          RegenerateSection(o[1], o[2], mode)
    \/ \E o \in UserTargets, u \in Users : LockSection(o[1], o[2], u)

SpecEvt == Init /\ [][NextEvt]_vars

\* ------------------------------------- updates with a backend
\* A service constructed with a synthesis backend, on a projection generated
\* as in SpecRace, one call at a time.  Every call to the backend may return
\* text or raise.
InitAi == InitRace

AiStart(mode) ==
    /\ Quiet
    /\ projection.version - RaceBase.version < MaxAiPasses
    /\ LET items == FilterSeq(pool, content_items)
       IN  \E outcome \in Outcomes(Backend) :
             Continue(1, ContextUpdated(projection, pool, content_items, outcome),
                    mode,
                    sections_to_update(projection, mode, pool), 1, items,
                    get_new_content_ids(pool,
                        content_snapshot_ids(projection, pool)),
                    Range(get_locked_sections(projection)), Len(pool), Backend)
    /\ UNCHANGED <<pool, content_items, projections>>

NextAi ==
    \/ \E c \in ItemIds \cup LaterItemIds : Quiet /\ AddContentItem(c)
    \/ \E c \in EventIds : Quiet /\ ContentCreated(c)
    \/ \E mode \in UpdateMode : AiStart(mode)
    \/ SectionDone(1)
    \/ \E u \in Users : Quiet /\ LockSection(ProjectionId, "s1", u)
    \/ Quiet /\ UnlockSection(ProjectionId, "s1")

SpecAi == InitAi /\ [][NextAi]_vars

\* ----------------------------------------- history of one section
\* The methods of ProjectedSection and DocumentProjection.mark_updated called
\* directly on a projection that holds the single section "s1".
GeneratedText == _stub_generate_section("section", <<1>>)
EditedText == << <<"edited", 0>> >>

\* k rewrites, alternately a manual edit and a regeneration, each rewrite
\* evaluated before the next one is made.
RECURSIVE Rewritten(_, _)
Rewritten(s, k) ==
    IF k = 0 THEN s
    ELSE LET next == IF k % 2 = 1
                     THEN finish_editing(s, EditedText, FALSE, "u1")
                     ELSE update_content(s, GeneratedText, <<1>>, "regeneration")
         IN  IF next.version > s.version THEN Rewritten(next, k - 1) ELSE s

RECURSIVE Marked(_, _, _)
Marked(proj, pool_ids, k) ==
    IF k = 0 THEN proj
    ELSE LET next == mark_updated(proj, pool_ids, REGENERATE, <<REGENERATE, 0, 0>>)
         IN  IF next.version > proj.version THEN Marked(next, pool_ids, k - 1)
             ELSE proj

HSec == projection.sections[1]

InitHist ==
    /\ pool = <<1>>
    /\ content_items = {1}
    /\ projections = {ProjectionId}
    /\ \E k \in {0, PreFill}, d \in {0, DocPreFill},
          summary \in {EmptyText, << <<"summary", 0>> >>} :
          LET fresh == IF k = 0
                       THEN NewSection("s1", EmptyText, EMPTY, <<>>, 0)
                       ELSE NewSection("s1", GeneratedText, GENERATED, <<1>>, 0)
              sec == Rewritten([fresh EXCEPT !.summary = summary], k)
          IN  projection = Marked(add_section(NewProjection, sec), pool, d)
    /\ pass = [t \in Tasks |-> Idle]
    /\ call = Call("init", None, 0, TRUE)

MayRewrite ==
    /\ HSec.version # 1 + HistSteps
    /\ HSec.version < PreFill + 1 + HistSteps

HUpdateContent(new_content, source_ids, trigger) ==
    /\ MayRewrite
    /\ projection' = [projection EXCEPT !.sections[1] =
            update_content(HSec, new_content, source_ids, trigger)]
    /\ call' = Call("update_content", None, 0, TRUE)
    /\ UNCHANGED <<pool, content_items, projections, pass>>

HFinishEditing(new_content, lk, user_id) ==
    /\ MayRewrite
    /\ projection' = [projection EXCEPT !.sections[1] =
            finish_editing(HSec, new_content, lk, user_id)]
    /\ call' = Call("finish_editing", None, 0, TRUE)
    /\ UNCHANGED <<pool, content_items, projections, pass>>

HRevertToVersion(version) ==
    /\ MayRewrite
    /\ LET r == revert_to_version(HSec, version) IN
        /\ projection' = [projection EXCEPT !.sections[1] = r.sec]
        /\ call' = Call("revert_to_version", None, version, r.ok)
    /\ UNCHANGED <<pool, content_items, projections, pass>>

HMarkUpdated(mode) ==
    /\ projection.version # 1 + DocSteps
    /\ projection.version < DocPreFill + 1 + DocSteps
    /\ projection' = mark_updated(projection, pool, mode, <<mode, 0, 0>>)
    /\ call' = Call("mark_updated", None, 0, TRUE)
    /\ UNCHANGED <<pool, content_items, projections, pass>>

NextHist ==
    \/ \E text \in {EmptyText, GeneratedText} :
          HUpdateContent(text, IF text = EmptyText THEN <<>> ELSE <<1>>,
                         "regeneration")
    \/ \E text \in {EmptyText, EditedText}, lk \in BOOLEAN, u \in Users :
          HFinishEditing(text, lk, u)
    \/ \E v \in {0} \cup {HSec.history[i].version : i \in 1..Len(HSec.history)} :
          HRevertToVersion(v)
    \/ HMarkUpdated(REGENERATE)

SpecHist == InitHist /\ [][NextHist]_vars

\* ------------------------------------------- life cycle of one section
\* The state-changing methods of ProjectedSection called directly, in any
\* order and with any arguments their signatures admit, on the single
\* section of a projection: new and EMPTY, or GENERATED from the stored item.
LSec == projection.sections[1]

InitLife ==
    /\ pool = <<1>>
    /\ content_items = {1}
    /\ projections = {ProjectionId}
    /\ \E fresh \in {NewSection("s1", EmptyText, EMPTY, <<>>, 0),
                      NewSection("s1", GeneratedText, GENERATED, <<1>>, 0)} :
          projection = add_section(NewProjection, fresh)
    /\ pass = [t \in Tasks |-> Idle]
    /\ call = Call("init", None, 0, TRUE)

LLock(user_id, reason) ==
    /\ projection' = [projection EXCEPT !.sections[1] =
            lock(LSec, user_id, reason)]
    /\ call' = Call("lock", None, 0, TRUE)
    /\ UNCHANGED <<pool, content_items, projections, pass>>

LUnlock ==
    /\ projection' = [projection EXCEPT !.sections[1] = unlock(LSec)]
    /\ call' = Call("unlock", None, 0, TRUE)
    /\ UNCHANGED <<pool, content_items, projections, pass>>

LStartEditing ==
    /\ projection' = [projection EXCEPT !.sections[1] = start_editing(LSec)]
    /\ call' = Call("start_editing", None, 0, TRUE)
    /\ UNCHANGED <<pool, content_items, projections, pass>>

LFinishEditing(new_content, lk, user_id) ==
    /\ LSec.version < MaxLifeVersion
    /\ projection' = [projection EXCEPT !.sections[1] =
            finish_editing(LSec, new_content, lk, user_id)]
    /\ call' = Call("finish_editing", None, 0, TRUE)
    /\ UNCHANGED <<pool, content_items, projections, pass>>

LUpdateContent(new_content, source_ids, trigger) ==
    /\ LSec.version < MaxLifeVersion
    /\ projection' = [projection EXCEPT !.sections[1] =
            update_content(LSec, new_content, source_ids, trigger)]
    /\ call' = Call("update_content", None, 0, TRUE)
    /\ UNCHANGED <<pool, content_items, projections, pass>>

LRevertToVersion(version) ==
    /\ LSec.version < MaxLifeVersion
    /\ LET r == revert_to_version(LSec, version) IN
        /\ projection' = [projection EXCEPT !.sections[1] = r.sec]
        /\ call' = Call("revert_to_version", None, version, r.ok)
    /\ UNCHANGED <<pool, content_items, projections, pass>>

NextLife ==
    \/ \E u \in Users, reason \in {"approved"} : LLock(u, reason)
    \/ LUnlock
    \/ LStartEditing
    \/ \E text \in {EmptyText, EditedText}, lk \in BOOLEAN,
          u \in Users \cup {None} : LFinishEditing(text, lk, u)
    \/ \E text \in {EmptyText, GeneratedText} :
          LUpdateContent(text, IF text = EmptyText THEN <<>> ELSE <<1>>,
                         "regeneration")
    \/ \E v \in 1..MaxLifeVersion : LRevertToVersion(v)

SpecLife == InitLife /\ [][NextLife]_vars

\* --------------------------------------------- sections of a projection
\* add_section, remove_section and reorder_sections called directly on a
\* projection generated with two sections.  A section that is added is a new
\* object with an id the projection does not hold.
OrderArgs ==
    UNION {[1..n -> SectionIds \cup {UnknownSection}] : n \in 0..MaxOrderLen}

InitOrder ==
    /\ pool = <<1>>
    /\ content_items = {1}
    /\ projections = {ProjectionId}
    /\ projection = generate_projection(pool, content_items)
    /\ pass = [t \in Tasks |-> Idle]
    /\ call = Call("init", None, 0, TRUE)

OAddSection(section_id) ==
    /\ section_id \notin Range(SectionIdsOf(projection.sections))
    /\ projection' = add_section(projection,
            NewSection(section_id, EmptyText, EMPTY, <<>>, 0))
    /\ call' = Call("add_section", section_id, 0, TRUE)
    /\ UNCHANGED <<pool, content_items, projections, pass>>

ORemoveSection(section_id) ==
    /\ LET r == remove_section(projection, section_id) IN
        /\ projection' = r.proj
        /\ call' = Call("remove_section", section_id, 0, r.ok)
    /\ UNCHANGED <<pool, content_items, projections, pass>>

OReorderSections(section_ids) ==
    /\ projection' = reorder_sections(projection, section_ids)
    /\ call' = Call("reorder_sections", None, section_ids, TRUE)
    /\ UNCHANGED <<pool, content_items, projections, pass>>

NextOrder ==
    \/ \E sid \in SectionIds : OAddSection(sid)
    \/ \E sid \in SectionIds \cup {UnknownSection} : ORemoveSection(sid)
    \/ \E ids \in OrderArgs : OReorderSections(ids)

SpecOrder == InitOrder /\ [][NextOrder]_vars

\* ------------------------------------------- updates and section states
\* update_projection, one call at a time, on a generated projection whose
\* sections are taken through their states by lock, unlock and start_editing
\* between the updates.  No method of the service calls start_editing: it is
\* called on the section itself.
DStartEditing(section_id) ==
    /\ LET i == get_section(projection, section_id) IN
        /\ i # 0
        /\ projection' = [projection EXCEPT !.sections[i] =
                             start_editing(projection.sections[i])]
    /\ call' = Call("start_editing", section_id, 0, TRUE)
    /\ UNCHANGED <<pool, content_items, projections, pass>>

\* The id lists get_update_options is called with.
OptionIds == {<<>>, <<1>>, <<2>>, <<1, 2>>}

\* Faulty variant: keeps the ids it was asked about as the snapshot.
DGetUpdateOptions_storing_ids(current_content_ids) ==
    /\ projection' = [projection EXCEPT
                         !.content_snapshot_ids = current_content_ids,
                         !.snapshot_is_pool = FALSE]
    /\ call' = Call("get_update_options", None,
                    [ids |-> current_content_ids,
                     options |-> get_update_options(projection,
                                    current_content_ids, pool)], TRUE)
    /\ UNCHANGED <<pool, content_items, projections, pass>>

\* DocumentProjection.get_update_options called on the projection.
DGetUpdateOptions(current_content_ids) ==
    /\ call' = Call("get_update_options", None,
                    [ids |-> current_content_ids,
                     options |-> get_update_options(projection,
                                    current_content_ids, pool)], TRUE)
    /\ UNCHANGED <<pool, content_items, projections, projection, pass>>

NextDraft ==
    \/ \E c \in ItemIds : Quiet /\ AddContentItem(c)
    \/ \E ids \in OptionIds : Quiet /\ DGetUpdateOptions(ids)
    \/ \E sid \in SectionIds : Quiet /\ DStartEditing(sid)
    \/ \E sid \in SectionIds, u \in Users :
          Quiet /\ LockSection(ProjectionId, sid, u)
    \/ \E sid \in SectionIds : Quiet /\ UnlockSection(ProjectionId, sid)
    \/ \E mode \in UpdateMode : Quiet /\ StartPass(1, mode)
    \/ SectionDone(1)

SpecDraft == InitRace /\ [][NextDraft]_vars

\* ------------------------------------- section-scoped updates
\* projection.update events that list section ids and
\* projection.regenerate_section events on a generated projection whose
\* sections may be locked, unlocked or put into editing in between.
ScopedLists ==
    {<<"s1">>, <<"s2">>, <<"s1", "s2">>, <<"s2", "s1">>,
     <<"s1", UnknownSection>>, <<UnknownSection>>}

NextScoped ==
    \/ \E c \in ItemIds : AddContentItem(c)
    \/ \E section_ids \in ScopedLists, mode \in UpdateMode :
          HandleUpdate(ProjectionId, mode, section_ids)
    \/ \E sid \in SectionIds \cup {UnknownSection}, mode \in UpdateMode :
          RegenerateSection(ProjectionId, sid, mode)
    \/ \E sid \in SectionIds : DStartEditing(sid)
    \/ \E sid \in SectionIds, u \in Users : LockSection(ProjectionId, sid, u)
    \/ \E sid \in SectionIds : UnlockSection(ProjectionId, sid)

SpecScoped == InitRace /\ [][NextScoped]_vars

\* ------------------------------------- whole updates, run to their return
\* update_projection called on the service with a backend that does not
\* yield (or none): the call runs from its start to its return as one step.
\* Edits in between make the sections differ in content and state.
UpdateProjection(mode) ==
    /\ projections = {ProjectionId}
    /\ projection.version - RaceBase.version < MaxWholePasses
    /\ projection' = update_projection(
                        ContextUpdated(projection, pool, content_items,
                                       "unavailable"),
                        pool, content_items, mode)
    /\ call' = Call("update_projection", None, mode, TRUE)
    /\ UNCHANGED <<pool, content_items, projections, pass>>

NextWhole ==
    \/ \E c \in ItemIds \cup LaterItemIds : AddContentItem(c)
    \/ \E text \in EditTexts, lk \in BOOLEAN, u \in Users :
          EditSection(ProjectionId, "s1", text, lk, u)
    \/ UnlockSection(ProjectionId, "s1")
    \/ \E mode \in UpdateMode : UpdateProjection(mode)

SpecWhole == InitRace /\ [][NextWhole]_vars

\* ------------------------------------------------ edits and updates
\* edit_section and unlock_section on section "s1" of a generated
\* projection, and update_projection, one call at a time.
EStart(mode) ==
    /\ Quiet
    /\ projection.version - RaceBase.version < MaxEditPasses
    /\ LET items == FilterSeq(pool, content_items)
       IN  Continue(1, ContextUpdated(projection, pool, content_items,
                                      "unavailable"), mode,
                    sections_to_update(projection, mode, pool), 1, items,
                    get_new_content_ids(pool,
                        content_snapshot_ids(projection, pool)),
                    Range(get_locked_sections(projection)), Len(pool), None)
    /\ UNCHANGED <<pool, content_items, projections>>

NextEdit ==
    \/ \E sid \in {"s1", UnknownSection}, text \in EditTexts \cup {EmptyText},
          lk \in BOOLEAN, u \in Users :
          Quiet /\ EditSection(ProjectionId, sid, text, lk, u)
    \/ Quiet /\ UnlockSection(ProjectionId, "s1")
    \/ \E mode \in UpdateMode : EStart(mode)
    \/ SectionDone(1)

SpecEdit == InitRace /\ [][NextEdit]_vars

\* ------------------------------------------------- the pool as an object
\* ContentPool with all its fields, add_content called directly.  In this
\* specification the variable pool holds the whole object, not only its
\* content_ids; utc_now() is the number of the call.
NewContentPool ==
    [content_ids |-> <<>>, contributor_ids |-> {}, tags |-> {},
     total_items |-> 0, last_updated |-> 0]

\* Faulty variant: records the contributor and the tags of every call.
ContentPool_add_content_always_metadata(p, content_id, contributor_id, tags, now) ==
    LET q == [p EXCEPT !.contributor_ids = p.contributor_ids \cup {contributor_id},
                       !.tags = p.tags \cup Range(tags)]
    IN  IF content_id \in Range(p.content_ids) THEN q
        ELSE [q EXCEPT !.content_ids = Append(p.content_ids, content_id),
                       !.total_items = Len(p.content_ids) + 1,
                       !.last_updated = now]

ContentPool_add_content(p, content_id, contributor_id, tags, now) ==
    IF content_id \in Range(p.content_ids) THEN p
    ELSE [p EXCEPT !.content_ids = Append(p.content_ids, content_id),
                   !.contributor_ids = p.contributor_ids \cup {contributor_id},
                   !.tags = p.tags \cup Range(tags),
                   !.total_items = Len(p.content_ids) + 1,
                   !.last_updated = now]

PoolIds == {1, 2}
Contributors == {"alice", "bob"}
TagLists == {<<>>, <<"t1">>, <<"t1", "t2">>}

InitPool ==
    /\ pool = NewContentPool
    /\ content_items = {}
    /\ projections = {}
    /\ projection = NewProjection
    /\ pass = [t \in Tasks |-> Idle]
    /\ call = Call("init", None, [contributor_id |-> None, tags |-> <<>>, now |-> 0], TRUE)

PoolAddContent(content_id, contributor_id, tags) ==
    /\ call.arg.now < MaxPoolCalls
    /\ LET now == call.arg.now + 1 IN
        /\ pool' = ContentPool_add_content(pool, content_id, contributor_id,
                                           tags, now)
        /\ call' = Call("add_content", content_id,
                        [contributor_id |-> contributor_id, tags |-> tags,
                         now |-> now], TRUE)
    /\ UNCHANGED <<content_items, projections, projection, pass>>

NextPool ==
    \E content_id \in PoolIds, contributor_id \in Contributors,
       tags \in TagLists : PoolAddContent(content_id, contributor_id, tags)

SpecPool == InitPool /\ [][NextPool]_vars

\* ------------------------------------------------- themes of a context
\* NarrativeContext.add_theme called on the context of a new projection.
\* The candidates carry the strengths the code gives a theme: the default
\* 1.0, or a multiple of 0.25 from the keyword stub.
ThemeNames == {<<"family", 1>>, <<"family", 2>>, <<"career", 1>>}
ThemeStrengths == {75, StrengthCap}
ThemeEvidence == {<< <<"e1">>, <<1>> >>, << <<"e2">>, <<2>> >>}

RECURSIVE ThemeIds(_)
ThemeIds(themes) ==
    IF themes = <<>> THEN 0
    ELSE Len(Head(themes).source_content_ids) + ThemeIds(Tail(themes))

InitTheme ==
    /\ pool = <<>>
    /\ content_items = {}
    /\ projections = {ProjectionId}
    /\ projection = NewProjection
    /\ pass = [t \in Tasks |-> Idle]
    /\ call = Call("init", None, 0, TRUE)

AddTheme(theme) ==
    /\ ThemeIds(projection.context.themes) < MaxThemeCalls
    /\ projection' = [projection EXCEPT !.context = add_theme(@, theme)]
    /\ call' = Call("add_theme", None, theme, TRUE)
    /\ UNCHANGED <<pool, content_items, projections, pass>>

NextTheme ==
    \E name \in ThemeNames, e \in ThemeEvidence, strength \in ThemeStrengths :
        AddTheme(DiscoveredTheme(name, e[1], strength, e[2]))

SpecTheme == InitTheme /\ [][NextTheme]_vars

\* ------------------------------------- thematic generation
\* generate_projection in thematic style under a configuration that names
\* suggested sections or not and sets max_sections, with a backend whose
\* extract_themes answer is any short list of theme names.
MaxSectionsBound == 2
TitleCasing == 3

\* str.title(): the same letters in title casing.
title(name) == <<name[1], TitleCasing>>

SuggestedLists ==
    {<<>>, << <<"childhood", 0>> >>,
     << <<"childhood", 0>>, <<"career", 0>> >>,
     << <<"childhood", 0>>, <<"career", 0>>, <<"travel", 0>> >>}

ThematicConfigs ==
    [suggested_sections : SuggestedLists, max_sections : 1..MaxSectionsBound]

ExtractedNames == ThemeNames \cup {<<"travel", 1>>}

ExtractedLists ==
    {<<>>} \cup {<<a>> : a \in ExtractedNames}
           \cup {<<a, b>> : a \in ExtractedNames, b \in ExtractedNames}
           \cup {<<a, b, c>> : a \in ExtractedNames, b \in ExtractedNames,
                              c \in ExtractedNames}

\* The texts of the model's items hold none of the stub's keywords.
_stub_extract_themes(items) == <<>>

_stub_section_titles(items) ==
    IF items = <<>>
    THEN << <<"introduction", TitleCasing>>, <<"story", TitleCasing>>,
            <<"reflections", TitleCasing>> >>
    ELSE << <<"memories", TitleCasing>>, <<"reflections", TitleCasing>> >>

RECURSIVE AddThemes(_, _)
AddThemes(context, names) ==
    IF names = <<>> THEN context
    ELSE AddThemes(add_theme(context,
                     DiscoveredTheme(Head(names), <<>>, StrengthCap, <<>>)),
                   Tail(names))

_build_narrative_context(items, extracted) ==
    IF items = <<>> THEN NewContext
    ELSE LET context == AddThemes(NewContext, extracted)
         IN  IF context.themes = <<>>
             THEN [context EXCEPT !.themes = _stub_extract_themes(items)]
             ELSE context

FirstN(s, n) == IF Len(s) > n THEN SubSeq(s, 1, n) ELSE s

ThematicIds == <<"s1", "s2", "s3">>

\* The titles _generate_thematic makes sections for.
section_titles(items, config, context) ==
    IF config.suggested_sections # <<>>
    THEN [i \in 1..Len(config.suggested_sections) |->
            title(config.suggested_sections[i])]
    ELSE IF context.themes # <<>>
    THEN LET themes == FirstN(context.themes, config.max_sections)
         IN  [i \in 1..Len(themes) |-> title(themes[i].theme)]
    ELSE _stub_section_titles(items)

_generate_thematic(items, config, context) ==
    LET titles == section_titles(items, config, context)
        content == _generate_section_content("section", items)
    IN  [i \in 1..Len(titles) |->
            [title |-> titles[i]] @@
            NewSection(ThematicIds[i], content,
                       IF content # EmptyText THEN GENERATED ELSE EMPTY,
                       items, i - 1)]

RECURSIVE AddAll(_, _)
AddAll(proj, secs) ==
    IF secs = <<>> THEN proj
    ELSE AddAll(add_section(proj, Head(secs)), Tail(secs))

generate_thematic(pool_ids, stored, config, extracted) ==
    LET items == FilterSeq(pool_ids, stored)
        context == _build_narrative_context(items, extracted)
        proj == AddAll([NewProjection EXCEPT !.context = context],
                       _generate_thematic(items, config, context))
    IN  mark_updated(proj, pool_ids, REGENERATE, <<"initial", 0, 0>>)

GenerateThematic(config, extracted) ==
    /\ projections = {}
    /\ projections' = {ProjectionId}
    /\ projection' = generate_thematic(pool, content_items, config, extracted)
    /\ call' = Call("generate_projection", None, config, TRUE)
    /\ UNCHANGED <<pool, content_items, pass>>

NextThematic ==
    \/ \E c \in ItemIds : projections = {} /\ AddContentItem(c)
    \/ \E config \in ThematicConfigs, extracted \in ExtractedLists :
          GenerateThematic(config, extracted)

SpecThematic == Init /\ [][NextThematic]_vars


\* ------------------------------------------------------------ properties
\* Every action records itself in call, so call' names the step taken.
\* A step of update_projection task t: its start, or the return of an await.
Started(t) ==
    /\ call'.op \in {"await", "update_projection"}
    /\ pass[t].pc = "idle"
    /\ \A u \in Tasks \ {t} : pass'[u] = pass[u]
Resumed(t) ==
    /\ call'.op \in {"await", "update_projection"}
    /\ pass[t].pc = "synth"
    /\ pass'[t] # pass[t]

\* The section with this id before and after the step (ids never change).
Before(sid) == Section(projection, sid)
After(sid) == Section(projection', sid)

\* The branch of update_projection that updates the narrative context is
\* never entered: the stored projection's snapshot is the pool's own list.
NoNewContentIds ==
    projections # {} =>
        get_new_content_ids(pool, content_snapshot_ids(projection, pool)) = <<>>

\* C1: a section that is LOCKED when update_projection starts is left
\* unchanged (content, summary, version, history, state and every other
\* field) by every step of that call, in every mode.
C1_LockInviolability ==
    [][\A t \in Tasks :
          /\ Started(t) =>
                \A i \in 1..Len(projection.sections) :
                    projection.sections[i].state = LOCKED =>
                        projection'.sections[i] = projection.sections[i]
          /\ Resumed(t) =>
                \A sid \in pass[t].locked_at_start : After(sid) = Before(sid)
      ]_vars

\* C1 witness: an update that started with a LOCKED section has returned
\* after rewriting another section; the locked one still has version 1.
C1_Witness ==
    /\ call.op = "update_projection"
    /\ call.arg > 0
    /\ Section(projection, "s1").state = LOCKED
    /\ Section(projection, "s1").content # EmptyText
    /\ Section(projection, "s1").version = 1
    /\ Section(projection, "s2").version > 1

\* C2: once a section is LOCKED, no step of an update pass writes it, also
\* when the lock was taken while the pass was suspended on a synthesis call.
C2_NoWriteAfterLock ==
    [][\A t \in Tasks : Resumed(t) =>
          \A sid \in SectionIds :
              Before(sid).state = LOCKED =>
                  /\ After(sid).content = Before(sid).content
                  /\ After(sid).version = Before(sid).version
                  /\ After(sid).state = LOCKED
      ]_vars

\* C3: an update pass is all-or-nothing: a step of the pass that changes a
\* section is the step that increments the document version, so a pass
\* abandoned before that increment has changed no section.
C3_AllOrNothing ==
    [][\A t \in Tasks : Resumed(t) =>
          (projection'.sections # projection.sections =>
              projection'.version = projection.version + 1)
      ]_vars

\* C7: an update_projection call that returns has increased the document
\* version by exactly 1 and appended exactly one version record carrying the
\* pre-increment version number; its other steps change neither.
C7_OneVersionPerUpdate ==
    [][/\ call'.op = "update_projection" =>
            /\ projection'.version = projection.version + 1
            /\ Len(projection'.version_history) =
                   Len(projection.version_history) + 1
            /\ SubSeq(projection'.version_history, 1,
                      Len(projection.version_history)) =
                   projection.version_history
            /\ projection'.version_history[Len(projection'.version_history)].version
                   = projection.version
       /\ call'.op = "await" =>
            /\ projection'.version = projection.version
            /\ projection'.version_history = projection.version_history
      ]_vars

\* C7 witness: an update with no candidate at all (one section LOCKED, the
\* other not stale) has returned and recorded its version.
C7_Witness ==
    /\ call.op = "update_projection"
    /\ call.arg > 0
    /\ projection.version_history[Len(projection.version_history)].change_summary[2] = 0
    /\ projection.version_history[Len(projection.version_history)].version
          = projection.version - 1

FailingOps == {"lock_section", "unlock_section", "edit_section", "revert_section"}

\* C10: lock_section, unlock_section, edit_section and revert_section return
\* false when the projection id or the section id does not exist, and
\* revert_section returns false when the version is absent from the
\* section's history; a call that returns false changes nothing.
C10_FailureChangesNothing ==
    [][call'.op \in FailingOps =>
          /\ ~call'.ret =>
                UNCHANGED <<pool, content_items, projections, projection, pass>>
          /\ ~Found(call'.pid, call'.sid) => ~call'.ret
          /\ (call'.op = "revert_section" /\ Found(call'.pid, call'.sid)
                /\ FindVersion(Section(projection, call'.sid), call'.arg) = 0)
             => ~call'.ret
      ]_vars

\* C10 witness: revert_section named an existing section with a non-empty
\* history and a version that is not in it, and returned false.
C10_Witness ==
    /\ call.op = "revert_section"
    /\ ~call.ret
    /\ call.pid = ProjectionId
    /\ call.sid = "s1"
    /\ projections = {ProjectionId}
    /\ Section(projection, "s1").history # <<>>


\* C4: two update passes on the same projection do not interleave their
\* writes: when both have returned, the document version has advanced by
\* exactly 2, version_history holds two new records with consecutive version
\* numbers, and the sections are as if the two passes had run one after the
\* other in some order.
C4_Serializable ==
    (projection.version = RaceBase.version + 2) =>
        LET n == Len(RaceBase.version_history)
            h == projection.version_history
            m1 == h[n + 1].update_mode
            m2 == h[n + 2].update_mode
            Serial(a, b) ==
                update_projection(
                    update_projection(RaceBase, pool, content_items, a),
                    pool, content_items, b)
        IN  /\ Len(h) = n + 2
            /\ h[n + 1].version = RaceBase.version
            /\ h[n + 2].version = RaceBase.version + 1
            /\ \/ projection.sections = Serial(m1, m2).sections
               \/ projection.sections = Serial(m2, m1).sections

\* new is old with one entry appended and then cut down to its newest limit
\* entries, order kept.
KeepsNewest(old, new, limit) ==
    /\ new # <<>>
    /\ LET all == Append(old, new[Len(new)])
           drop == IF Len(all) > limit THEN Len(all) - limit ELSE 0
       IN  new = SubSeq(all, drop + 1, Len(all))

\* C5: a section's history never holds more than 10 entries and a
\* projection's version_history never more than 20; a call that replaces
\* non-empty content, and every mark_updated, appends the state it replaces
\* and, past the bound, drops the oldest entries, so the newest ones stay in
\* their original order; any other call leaves the list alone.
C5_HistoryBound ==
    [][/\ Len(HSec'.history) <= 10
       /\ Len(projection'.version_history) <= 20
       /\ IF HSec'.version # HSec.version /\ HSec.content # EmptyText
          THEN /\ KeepsNewest(HSec.history, HSec'.history, 10)
               /\ HSec'.history[Len(HSec'.history)].version = HSec.version
               /\ HSec'.history[Len(HSec'.history)].content = HSec.content
          ELSE HSec'.history = HSec.history
       /\ IF projection'.version # projection.version
          THEN /\ KeepsNewest(projection.version_history,
                              projection'.version_history, 20)
               /\ projection'.version_history[Len(projection'.version_history)].version
                      = projection.version
          ELSE projection'.version_history = projection.version_history
      ]_vars

\* C5 witness: both lists are full and have already lost their oldest entry.
C5_Witness ==
    /\ Len(HSec.history) = 10
    /\ HSec.history[1].version > 1
    /\ Len(projection.version_history) = 20
    /\ projection.version_history[1].version > 1

\* C6: update_content, finish_editing and a successful revert_to_version
\* each add exactly 1 to the section's version, with or without prior
\* content and with or without a history entry pushed; no step lowers it.
C6_VersionMonotonic ==
    [][/\ (\/ call'.op \in {"update_content", "finish_editing"}
           \/ call'.op = "revert_to_version" /\ call'.ret)
          => HSec'.version = HSec.version + 1
       /\ HSec'.version >= HSec.version
      ]_vars

\* C6 witness: a content-mutating call on a section whose content was empty
\* pushed no history entry and still moved the version from 1 to 2.
C6_Witness ==
    /\ call.op \in {"update_content", "finish_editing"}
    /\ HSec.version = 2
    /\ HSec.history = <<>>
    /\ HSec.content # EmptyText

\* C8: revert_to_version(v) with v in the history succeeds, sets content,
\* summary and source_content_ids to those of the entry for v as it was
\* before the call, and adds 1 to the version, also when taking the
\* snapshot evicts that entry from a full history.
C8_RevertRoundTrip ==
    [][call'.op = "revert_to_version" =>
          LET i == FindVersion(HSec, call'.arg) IN
          i # 0 =>
              /\ call'.ret
              /\ HSec'.content = HSec.history[i].content
              /\ HSec'.summary = HSec.history[i].summary
              /\ HSec'.source_content_ids = HSec.history[i].source_content_ids
              /\ HSec'.version = HSec.version + 1
      ]_vars

\* C8 witness: a revert succeeded on a full history whose oldest entry was
\* the requested one; the snapshot evicted it and its content is now current.
C8_Witness ==
    /\ call.op = "revert_to_version"
    /\ call.ret
    /\ Len(HSec.history) = 10
    /\ call.arg < HSec.history[1].version
    /\ HSec.history[10].trigger = "revert"
    /\ HSec.history[10].content # HSec.content

\* The state (C, S, I) at version k is in the history of s and
\* revert_to_version(k) on s succeeds and restores it.
Reversible(s, k, C, S, I) ==
    /\ \E j \in 1..Len(s.history) :
          /\ s.history[j].version = k
          /\ s.history[j].content = C
          /\ s.history[j].summary = S
          /\ s.history[j].source_content_ids = I
    /\ revert_to_version(s, k).ok
    /\ revert_to_version(s, k).sec.content = C
    /\ revert_to_version(s, k).sec.summary = S
    /\ revert_to_version(s, k).sec.source_content_ids = I

\* C9 as stated: after a successful revert_to_version the pre-revert state
\* can be reverted to, for every pre-revert content, the empty one included.
C9_RevertReversibleAlways ==
    [][(call'.op = "revert_to_version" /\ call'.ret) =>
          Reversible(HSec', HSec.version, HSec.content, HSec.summary,
                     HSec.source_content_ids)
      ]_vars

\* C9: after a successful revert_to_version on a section whose content was
\* not empty, the history holds the pre-revert state under the pre-revert
\* version, and reverting to that version succeeds and restores it.
C9_RevertReversible ==
    [][(call'.op = "revert_to_version" /\ call'.ret
           /\ HSec.content # EmptyText) =>
          Reversible(HSec', HSec.version, HSec.content, HSec.summary,
                     HSec.source_content_ids)
      ]_vars

\* C9 witness: a revert has undone an earlier revert: the entry it restored
\* was the snapshot that earlier revert took.
C9_Witness ==
    /\ call.op = "revert_to_version"
    /\ call.ret
    /\ \E j \in 1..Len(HSec.history) :
          /\ HSec.history[j].version = call.arg
          /\ HSec.history[j].trigger = "revert"
          /\ HSec.history[j].content = HSec.content
          /\ HSec.history[j].content # EmptyText

\* C11: right after a REGENERATE or REFRESH pass has written a section, and
\* with the pool's id list as it was when the pass started, that section
\* is not stale against the pool's ids.
C11_FreshAfterTouch ==
    [][\A t \in Tasks :
          (/\ Resumed(t)
           /\ pass[t].mode \in {REGENERATE, REFRESH}
           /\ Len(pool) = pass[t].n_ids)
          => ~is_stale(After(pass[t].cands[pass[t].idx]), pool)
      ]_vars

\* A section that update_projection selects in REFRESH mode.
StaleCandidate(sid) ==
    /\ can_regenerate(Before(sid))
    /\ is_stale(Before(sid), pool)

\* C12: a REFRESH pass run on its own selects exactly the regeneratable
\* sections that are stale against the pool's ids, gives each of them a new
\* version, and leaves every other section as it was.
C12_RefreshExactlyStale ==
    [][\A t \in Tasks :
          /\ (Resumed(t) /\ pass[t].mode = REFRESH) =>
                LET cand == pass[t].cands[pass[t].idx] IN
                /\ \A sid \in SectionIds \ {cand} : After(sid) = Before(sid)
                /\ After(cand).version = Before(cand).version + 1
                /\ IF pass'[t].pc = "synth"
                   THEN pass'[t].idx = pass[t].idx + 1
                   ELSE pass[t].idx = Len(pass[t].cands)
          /\ (Started(t) /\ pass'[t].pc = "synth" /\ pass'[t].mode = REFRESH) =>
                /\ projection'.sections = projection.sections
                /\ Range(pass'[t].cands) =
                       {sid \in SectionIds : StaleCandidate(sid)}
                /\ pass'[t].idx = 1
          /\ (/\ Started(t)
              /\ call'.op = "update_projection"
              /\ projection'.version_history[
                     Len(projection'.version_history)].update_mode = REFRESH) =>
                /\ projection'.sections = projection.sections
                /\ \A sid \in SectionIds : ~StaleCandidate(sid)
      ]_vars

\* C13: get_update_options called right after an id was added to the pool
\* of an existing projection reports has_new_content = true and a
\* new_content_count of at least 1, and never counts a LOCKED section as
\* stale.
C13_NewContentReported ==
    [][(call'.op = "get_update_options" /\ call'.ret) =>
          /\ call.op \in {"add_content_item", "content.created"} =>
                /\ call'.arg.has_new_content
                /\ call'.arg.new_content_count >= 1
          /\ \A sid \in Range(call'.arg.stale_section_ids) :
                ~is_locked(Before(sid))
      ]_vars

\* C14: whenever no call is in progress, the projection's word_count is the
\* number of words in the contents of its current sections.
C14_WordCountConsistent ==
    (projections # {} /\ Quiet) =>
        projection.word_count = SumWords(projection.sections)

\* Two names equal ignoring case: the same letters.
SameIgnoringCase(a, b) == a[1] = b[1]

\* C15: add_theme never leaves two themes whose names are equal ignoring
\* case.  A candidate matching an existing theme leaves the number of themes
\* unchanged, appends its evidence and content ids to that theme after the
\* ones it had, and sets its strength to min(1.0, previous + 0.1), which is
\* neither lower than before nor above 1.0; other themes stay as they were.
\* A candidate matching none is appended.
C15_ThemeMerge ==
    [][call'.op = "add_theme" =>
          LET old == projection.context.themes
              new == projection'.context.themes
              th == call'.arg
              hits == {i \in 1..Len(old) : SameIgnoringCase(old[i].theme, th.theme)}
          IN  /\ \A i, j \in 1..Len(new) :
                    i # j => ~SameIgnoringCase(new[i].theme, new[j].theme)
              /\ hits = {} => new = Append(old, th)
              /\ hits # {} =>
                    /\ Len(new) = Len(old)
                    /\ \A i \in hits :
                          /\ new[i].theme = old[i].theme
                          /\ new[i].evidence = old[i].evidence \o th.evidence
                          /\ new[i].source_content_ids =
                                old[i].source_content_ids \o th.source_content_ids
                          /\ new[i].strength =
                                (IF old[i].strength + 10 < 100
                                 THEN old[i].strength + 10 ELSE 100)
                          /\ new[i].strength >= old[i].strength
                          /\ new[i].strength <= 100
                    /\ \A i \in (1..Len(old)) \ hits : new[i] = old[i]
      ]_vars

\* C15 witness: a candidate written in another casing was merged into an
\* existing theme three times: one theme of that name, four pieces of
\* evidence, strength risen from 0.75 to the cap.
C15_Witness ==
    /\ call.op = "add_theme"
    /\ Len(projection.context.themes) = 1
    /\ projection.context.themes[1].theme # call.arg.theme
    /\ Len(projection.context.themes[1].evidence) = 4
    /\ projection.context.themes[1].strength = 100
    /\ call.arg.strength = 75

\* The awaited call of task t, about to return, fell back to the stub: the
\* backend raised, or there is none.
FellBack(t) == Resumed(t) /\ pass[t].outcome # "ok"

C17_UnknownValueNoEffect ==
    [][/\ (/\ call'.op = "projection.generate"
           /\ \/ call'.arg.request[1] \notin ProjectionStyle
              \/ call'.arg.request[2] \notin ProjectionLength)
          => /\ call'.arg.raised
             /\ projections' = projections
             /\ projection' = projection
       /\ (/\ call'.op \in {"projection.update", "regenerate_section"}
           /\ call'.arg.request \notin UpdateMode)
          => /\ projection' = projection
             /\ projections' = projections]_vars

\* The half of C17 about modes: an unknown mode on an existing projection
\* (and a section that can regenerate) raises and changes nothing.
UnknownModeNoEffect ==
    [][(/\ call'.op \in {"projection.update", "regenerate_section"}
        /\ call'.arg.request \notin UpdateMode)
          => /\ projection' = projection
             /\ projections' = projections
             /\ call'.arg.raised <=>
                   /\ call'.pid \in projections
                   /\ call'.op = "regenerate_section" =>
                         /\ get_section(projection, call'.sid) # 0
                         /\ can_regenerate(Section(projection, call'.sid))]_vars

HasLockMetadata(s) ==
    s.locked_at /\ s.locked_by # None /\ s.lock_reason # None
NoLockMetadata(s) ==
    ~s.locked_at /\ s.locked_by = None /\ s.lock_reason = None

\* C18: a section carries lock metadata exactly when it is LOCKED: locked_at,
\* locked_by and lock_reason are all set while its state is LOCKED and all
\* cleared in every other state.
C18_LockMetadataIffLocked ==
    IF LSec.state = LOCKED THEN HasLockMetadata(LSec) ELSE NoLockMetadata(LSec)

\* The state changes the specification names, each with its operation.
Transitions ==
    {<<EMPTY, GENERATED, "update_content">>,
     <<GENERATED, LOCKED, "lock">>,
     <<LOCKED, GENERATED, "unlock">>,
     <<GENERATED, DRAFT, "start_editing">>,
     <<EMPTY, DRAFT, "start_editing">>,
     <<DRAFT, GENERATED, "finish_editing">>,
     <<DRAFT, LOCKED, "finish_editing">>}

\* C19: every change of a section's state is one of the specified
\* transitions, made by the operation specified for it; lock is not applied
\* from EMPTY or DRAFT, start_editing not from LOCKED, and unlock does not
\* make an EMPTY or DRAFT section GENERATED.
C19_OnlySpecifiedTransitions ==
    [][LSec'.state # LSec.state =>
          <<LSec.state, LSec'.state, call'.op>> \in Transitions]_vars

HeldIds(proj) == Range(SectionIdsOf(proj.sections))

\* C20: reorder_sections never changes which sections the projection holds:
\* for every argument list the set of section ids after the call equals the
\* set before it and no section appears twice; a section leaves a projection
\* only through remove_section.
C20_ReorderKeepsSections ==
    [][/\ call'.op = "reorder_sections" =>
             /\ HeldIds(projection') = HeldIds(projection)
             /\ Cardinality(HeldIds(projection')) = Len(projection'.sections)
       /\ HeldIds(projection) \ HeldIds(projection') # {} =>
             call'.op = "remove_section"]_vars

\* C21: the sections' order values are dense: the section at list position i
\* (from 0) has order i, after any add_section, remove_section and
\* reorder_sections calls, also when reorder_sections is given unknown ids.
C21_OrdersDense ==
    \A i \in 1..Len(projection.sections) : projection.sections[i].order = i - 1

\* C22: content_ids never holds an id twice and total_items is its length;
\* add_content of an id already in the pool changes no field of the pool,
\* whatever contributor and tags the call carries, and add_content of a new
\* id appends it.
C22_PoolNoDuplicates ==
    [][call'.op = "add_content" =>
          /\ Cardinality(Range(pool'.content_ids)) = Len(pool'.content_ids)
          /\ pool'.total_items = Len(pool'.content_ids)
          /\ IF call'.sid \in Range(pool.content_ids)
             THEN pool' = pool
             ELSE pool'.content_ids = Append(pool.content_ids, call'.sid)]_vars

\* add_content has just been called with an id the pool already held, by a
\* contributor and with a tag the pool has not recorded.
C22_Witness ==
    /\ call.op = "add_content"
    /\ call.arg.now > pool.last_updated
    /\ call.sid \in Range(pool.content_ids)
    /\ call.arg.contributor_id \notin pool.contributor_ids
    /\ Range(call.arg.tags) \ pool.tags # {}

\* C23: can_regenerate is true exactly for EMPTY and GENERATED sections, so
\* the regeneratable and the locked sections are disjoint and no update mode
\* selects a DRAFT or LOCKED section; a step of update_projection leaves
\* every DRAFT section as it is.
C23_DraftUntouched ==
    [][/\ \A i \in 1..Len(projection.sections) :
             can_regenerate(projection.sections[i])
                <=> projection.sections[i].state \in {EMPTY, GENERATED}
       /\ Range(get_regeneratable_sections(projection))
             \cap Range(get_locked_sections(projection)) = {}
       /\ \A mode \in UpdateMode :
             \A sid \in Range(sections_to_update(projection, mode, pool)) :
                Before(sid).state \notin {DRAFT, LOCKED}
       /\ call'.op \in {"await", "update_projection"} =>
             \A sid \in SectionIds :
                Before(sid).state = DRAFT => After(sid) = Before(sid)]_vars

\* An update has returned that wrote one section (version 2) and passed
\* over the other, which is DRAFT at version 1 with its generated content.
C23_Witness ==
    /\ call.op = "update_projection"
    /\ \E sid \in SectionIds :
          /\ Section(projection, sid).state = DRAFT
          /\ Section(projection, sid).version = 1
          /\ Section(projection, sid).content # EmptyText
    /\ \E sid \in SectionIds : Section(projection, sid).version = 2

\* C24: edit_section on an existing section sets its content to the text
\* given, saves the previous content with its version to the history when it
\* was not empty, increases the version by 1, leaves last_content_snapshot
\* and source_content_ids as they were, and ends LOCKED when lock is true
\* and GENERATED otherwise; a section edited with lock true is left
\* unchanged by every step of a later update while it stays locked.
C24_EditSection ==
    [][/\ (call'.op = "edit_section" /\ call'.ret) =>
             LET old == Before(call'.sid)
                 new == After(call'.sid)
             IN  /\ new.content = call'.arg[1]
                 /\ new.version = old.version + 1
                 /\ new.last_content_snapshot = old.last_content_snapshot
                 /\ new.source_content_ids = old.source_content_ids
                 /\ new.state = IF call'.arg[2] THEN LOCKED ELSE GENERATED
                 /\ IF old.content # EmptyText
                    THEN /\ new.history # <<>>
                         /\ new.history[Len(new.history)].content = old.content
                         /\ new.history[Len(new.history)].version = old.version
                         /\ Len(new.history) =
                              IF Len(old.history) < SectionHistoryLimit
                              THEN Len(old.history) + 1 ELSE SectionHistoryLimit
                    ELSE new.history = old.history
       /\ call'.op \in {"await", "update_projection"} =>
             \A sid \in SectionIds :
                (/\ Before(sid).state = LOCKED
                 /\ Before(sid).lock_reason = "manually edited")
                   => After(sid) = Before(sid)]_vars

\* A section was edited with lock true, and an update that started
\* afterwards has returned: the edited section is LOCKED at version 2 with
\* the edited text and the generated text in its history, and the other
\* section was written.
C24_Witness ==
    /\ call.op = "update_projection"
    /\ \E sid \in SectionIds :
          LET s == Section(projection, sid) IN
          /\ s.state = LOCKED /\ s.lock_reason = "manually edited"
          /\ s.version = 2 /\ s.content \in EditTexts
          /\ Len(s.history) = 1 /\ s.history[1].version = 1
          /\ \E other \in SectionIds \ {sid} :
                Section(projection, other).version = 2

\* C25: get_update_options is a pure read: a call with any id list changes
\* no field of the projection, of its sections, of its narrative context or
\* of the content pool.
C25_OptionsPureRead ==
    [][call'.op = "get_update_options" =>
          /\ projection' = projection
          /\ pool' = pool
          /\ content_items' = content_items
          /\ projections' = projections]_vars

\* get_update_options has just answered a question that has something to
\* report: new content, a stale section and a locked one.
C25_Witness ==
    /\ call.op = "get_update_options"
    /\ call.arg.options.has_new_content
    /\ call.arg.options.stale_section_count > 0
    /\ call.arg.options.locked_count > 0

\* C26: for each update mode the engine accepts, get_update_options reports
\* an entry whose affects_sections is the number of sections
\* update_projection in that mode would select next against the same ids.
C26_OptionsMatchCandidates ==
    call.op = "get_update_options" =>
        \A mode \in UpdateMode :
            \E k \in 1..Len(call.arg.options.available_modes) :
                /\ call.arg.options.available_modes[k][1] = mode
                /\ call.arg.options.available_modes[k][2] =
                      Len(sections_to_update(projection, mode, call.arg.ids))

\* The entries get_update_options does report match the candidates.
ReportedOptionsMatch ==
    call.op = "get_update_options" =>
        \A k \in 1..Len(call.arg.options.available_modes) :
            call.arg.options.available_modes[k][2] =
                Len(sections_to_update(projection,
                        call.arg.options.available_modes[k][1], call.arg.ids))

\* C27: in EVOLVE mode the integrate call for a candidate section receives
\* the section's existing content and only the content items that are not in
\* the section's last_content_snapshot, never the full content set.
C27_EvolveReceivesDelta ==
    \A t \in Tasks :
        (pass[t].pc = "synth" /\ pass[t].mode = EVOLVE) =>
            LET s == Section(projection, pass[t].cands[pass[t].idx])
                a == SynthesisArgs(s, EVOLVE, pass[t].items)
            IN  /\ a.existing_content = s.content
                /\ a.items = NewItems(s, pass[t].items)

\* The mode of the update_projection call that makes this step.
StepMode(t) ==
    IF pass[t].pc = "synth" THEN pass[t].mode
    ELSE IF pass'[t].pc = "synth" THEN pass'[t].mode
    ELSE projection'.version_history[Len(projection'.version_history)].update_mode

\* C28: in APPEND mode only the content items that are not in the section's
\* last_content_snapshot are synthesized, and the section's new content is
\* its prior content followed by the newly synthesized text, so the prior
\* content is a prefix of the new content; a section with no such items
\* keeps its content, version, history and snapshot.
C28_AppendKeepsPrefix ==
    [][\A t \in Tasks :
        ((Started(t) \/ Resumed(t)) /\ StepMode(t) = APPEND) =>
          /\ \A sid \in SectionIds :
                \/ After(sid) = Before(sid)
                \/ /\ Resumed(t)
                   /\ sid = pass[t].cands[pass[t].idx]
                   /\ NewItems(Before(sid), pass[t].items) # <<>>
          /\ Resumed(t) =>
                LET s == Before(pass[t].cands[pass[t].idx])
                    n == After(pass[t].cands[pass[t].idx])
                    new_items == NewItems(s, pass[t].items)
                IN  /\ SynthesisArgs(s, APPEND, pass[t].items).items = new_items
                    /\ pass[t].result =
                          IF pass[t].outcome = "ok" THEN << <<"ai", APPEND>> >>
                          ELSE _stub_generate_section("additional", new_items)
                    /\ n.content = s.content \o pass[t].result
                    /\ Len(n.content) > Len(s.content)
                    /\ SubSeq(n.content, 1, Len(s.content)) = s.content
                    /\ n.version = s.version + 1]_vars

\* An APPEND update has returned after a section whose snapshot held item 1
\* was given the text synthesized from item 3 alone, after its prior text.
C28_Witness ==
    /\ call.op = "update_projection"
    /\ content_items = {1, 3}
    /\ \E sid \in SectionIds :
          LET s == Section(projection, sid) IN
          /\ s.history # <<>>
          /\ s.history[Len(s.history)].trigger = "append"
          /\ s.history[Len(s.history)].source_content_ids = <<1>>
          /\ s.content = s.history[Len(s.history)].content
                            \o _stub_generate_section("additional", <<3>>)

\* The sections that are GENERATED or EMPTY before the step.
RegenerableBefore == {sid \in SectionIds : Before(sid).state \in {GENERATED, EMPTY}}

\* C29: in REGENERATE mode the candidates are exactly the sections that are
\* GENERATED or EMPTY, stale or not; each candidate in turn is synthesized
\* again from all the stored items of the pool, its prior content, when not
\* empty, is appended to its history under its prior version number, its
\* content is replaced, its version grows by 1 and its state is GENERATED.
C29_RegenerateAll ==
    [][\A t \in Tasks :
        /\ (Started(t) /\ StepMode(t) = REGENERATE) =>
              IF pass'[t].pc = "synth"
              THEN /\ Range(pass'[t].cands) = RegenerableBefore
                   /\ Len(pass'[t].cands) = Cardinality(RegenerableBefore)
                   /\ pass'[t].idx = 1
                   /\ pass'[t].items = FilterSeq(pool, content_items)
                   /\ projection'.sections = projection.sections
              ELSE /\ RegenerableBefore = {}
                   /\ projection'.sections = projection.sections
        /\ (Resumed(t) /\ StepMode(t) = REGENERATE) =>
              LET p == pass[t]
                  sid == p.cands[p.idx]
                  s == Before(sid)
                  n == After(sid)
              IN  /\ p.items = FilterSeq(pool, content_items)
                  /\ p.result =
                        IF p.items # <<>> /\ p.outcome = "ok"
                        THEN << <<"ai", REGENERATE>> >>
                        ELSE _generate_section_content("section", p.items)
                  /\ n.content = p.result
                  /\ n.version = s.version + 1
                  /\ n.state = GENERATED
                  /\ IF s.content # EmptyText
                     THEN /\ n.history # <<>>
                          /\ n.history[Len(n.history)].version = s.version
                          /\ n.history[Len(n.history)].content = s.content
                          /\ Len(s.history) < SectionHistoryLimit =>
                                SubSeq(n.history, 1, Len(s.history)) = s.history
                                    /\ Len(n.history) = Len(s.history) + 1
                     ELSE n.history = s.history
                  /\ \A other \in SectionIds \ {sid} : After(other) = Before(other)
                  /\ IF p.idx < Len(p.cands)
                     THEN /\ pass'[t].pc = "synth"
                          /\ pass'[t].cands = p.cands
                          /\ pass'[t].idx = p.idx + 1
                     ELSE pass'[t].pc = "idle"]_vars

\* Two REGENERATE updates have returned over the unchanged pool <<1>>: the
\* second one found the section not stale and replaced its content again,
\* pushing version 2 to the history.
C29_Witness ==
    /\ call.op = "update_projection"
    /\ pool = <<1>>
    /\ content_items = {1}
    /\ \E sid \in SectionIds :
          LET s == Section(projection, sid) IN
          /\ s.version = 3
          /\ s.state = GENERATED
          /\ s.last_content_snapshot = <<1>>
          /\ Len(s.history) = 2
          /\ s.history[1].trigger = "regeneration"
          /\ s.history[1].version = 1
          /\ s.history[2].trigger = "regeneration"
          /\ s.history[2].version = 2

\* The number of new content ids the update_projection call that makes this
\* step has found: held by the suspended pass, or written to the change
\* summary of the version record when the call returns at once.
StepNewCount(t) ==
    IF pass'[t].pc = "synth" THEN Len(pass'[t].new_content_ids)
    ELSE projection'.version_history[Len(projection'.version_history)]
            .change_summary[3]

\* C30: an update_projection call that starts right after an id was added
\* to the pool finds that id among the ids added since the projection's last
\* snapshot, updates the narrative context from the stored items among those
\* ids, and does so before any candidate section is synthesized: the steps
\* that write sections leave the context as it is.
C30_ContextFromNewItems ==
    [][\A t \in Tasks :
        /\ (Started(t) /\ call.op \in {"add_content_item", "content.created"}) =>
              /\ StepNewCount(t) >= 1
              /\ pass'[t].pc = "synth" =>
                    /\ pool[Len(pool)] \in Range(pass'[t].new_content_ids)
                    /\ \E outcome \in Outcomes(pass'[t].ai) :
                          projection'.context =
                            _update_narrative_context(projection.context,
                                FilterSeq(pass'[t].new_content_ids, content_items),
                                outcome)
                    /\ projection'.sections = projection.sections
        /\ Resumed(t) => projection'.context = projection.context]_vars

\* The steps that synthesize and write sections leave the narrative context
\* as it is.
SynthesisKeepsContext ==
    [][\A t \in Tasks : Resumed(t) => projection'.context = projection.context]_vars

\* C31: right after generate_projection over a pool whose ids all have a
\* stored item, every section with content has last_content_snapshot equal
\* to the ids its content was made from, no section is stale against the
\* pool's ids, get_update_options reports stale_section_count = 0 and
\* REFRESH has no candidate.
C31_FreshSectionsNotStale ==
    [][(call'.op = "generate_projection" /\ Range(pool') = content_items') =>
          /\ \A i \in 1..Len(projection'.sections) :
                LET s == projection'.sections[i] IN
                s.content # EmptyText =>
                    /\ s.last_content_snapshot = s.source_content_ids
                    /\ ~is_stale(s, pool')
          /\ get_update_options(projection', pool', pool').stale_section_count = 0
          /\ sections_to_update(projection', REFRESH, pool') = <<>>]_vars

\* After generate_projection each section has version 1 and no history.
GeneratedSectionsFresh ==
    [][call'.op = "generate_projection" =>
          \A i \in 1..Len(projection'.sections) :
              /\ projection'.sections[i].version = 1
              /\ projection'.sections[i].history = <<>>]_vars

\* C32: after generate_projection the document's version record made for
\* the generation has the trigger "generation", and each generated section
\* has version 1 and an empty history.
C32_GenerationRecord ==
    [][call'.op = "generate_projection" =>
          /\ projection'.version_history # <<>>
          /\ projection'.version_history[Len(projection'.version_history)].trigger
                = "generation"
          /\ \A i \in 1..Len(projection'.sections) :
                /\ projection'.sections[i].version = 1
                /\ projection'.sections[i].history = <<>>]_vars

\* The names thematic generation works from: the suggested sections when
\* there are any, else the themes of the narrative context.
ThemeNamesUsed ==
    IF call'.arg.suggested_sections # <<>>
    THEN call'.arg.suggested_sections
    ELSE [i \in 1..Len(projection'.context.themes) |->
            projection'.context.themes[i].theme]

\* C33: thematic generation from configured or discovered theme names makes
\* one section per name, in order, up to config.max_sections sections and
\* never more, whether the names are the suggested sections or the
\* discovered themes.
C33_ThematicBounded ==
    [][(call'.op = "generate_projection" /\ ThemeNamesUsed # <<>>) =>
          LET n == IF Len(ThemeNamesUsed) > call'.arg.max_sections
                   THEN call'.arg.max_sections ELSE Len(ThemeNamesUsed)
          IN  /\ Len(projection'.sections) = n
              /\ Len(projection'.sections) <= call'.arg.max_sections
              /\ \A i \in 1..n :
                    projection'.sections[i].title = title(ThemeNamesUsed[i])]_vars

\* When the names are the discovered themes, the sections are those of the
\* first max_sections themes.
DiscoveredThemesBounded ==
    [][(call'.op = "generate_projection" /\ call'.arg.suggested_sections = <<>>
            /\ ThemeNamesUsed # <<>>) =>
          /\ Len(projection'.sections) <= call'.arg.max_sections
          /\ \A i \in 1..Len(projection'.sections) :
                projection'.sections[i].title = title(ThemeNamesUsed[i])]_vars

\* C34: in every section history an entry has an author only when its
\* content was written by a manual edit; an entry whose content came from
\* synthesis has none.
C34_AuthorOnlyOnManual ==
    \A i \in 1..Len(projection.sections) :
        \A k \in 1..Len(projection.sections[i].history) :
            LET h == projection.sections[i].history[k] IN
            h.created_by # None => h.content \in EditTexts

\* The sections a section-scoped event names.
NamedSections ==
    IF call'.op = "projection.update" THEN Range(call'.sid) ELSE {call'.sid}

\* C35: a projection.update event that lists section ids, and a
\* projection.regenerate_section event, change only named sections that can
\* regenerate (GENERATED or EMPTY), pass over LOCKED, DRAFT and unknown ids
\* without raising, and leave every other section, the document version,
\* version_history and content_snapshot_ids as they were.
C35_ScopedUpdateFrame ==
    [][(/\ call'.op \in {"projection.update", "regenerate_section"}
        /\ call'.arg.request \in UpdateMode
        /\ call'.op = "projection.update" => call'.sid # <<>>) =>
          /\ ~call'.arg.raised
          /\ \A sid \in SectionIds :
                After(sid) # Before(sid) =>
                    /\ sid \in NamedSections
                    /\ Before(sid).state \in {GENERATED, EMPTY}
          /\ SectionIdsOf(projection'.sections) = SectionIdsOf(projection.sections)
          /\ projection'.version = projection.version
          /\ projection'.version_history = projection.version_history
          /\ content_snapshot_ids(projection', pool')
                = content_snapshot_ids(projection, pool)]_vars

\* A projection.update event listing s1 and s2 has returned: s1, LOCKED or
\* DRAFT, is at version 1 and s2 was rewritten to version 2, with the
\* document still at the version generate_projection gave it.
C35_Witness ==
    /\ call.op = "projection.update"
    /\ call.ret
    /\ Range(call.sid) = {"s1", "s2"}
    /\ Section(projection, "s1").state \in {LOCKED, DRAFT}
    /\ Section(projection, "s1").version = 1
    /\ Section(projection, "s2").version = 2
    /\ projection.version = RaceBase.version

\* Every order in which the entries of a sequence can be taken.
OrdersOf(seq) ==
    {[i \in 1..Len(seq) |-> seq[f[i]]] : f \in Permutations(1..Len(seq))}

\* C36: the sections of one update pass do not depend on each other: the
\* projection a pass leaves, every section and the document record, is what
\* processing the candidate sections in any order at all would leave.
C36_OrderIndependent ==
    [][(call'.op = "update_projection" /\ Quiet) =>
          LET mode == call'.arg
              items == FilterSeq(pool, content_items)
              cands == sections_to_update(projection, mode, pool)
              new_ids == get_new_content_ids(pool,
                            content_snapshot_ids(projection, pool))
          IN  \A order \in OrdersOf(cands) :
                projection' =
                    mark_updated(UpdateSections(projection, order, 1, mode, items),
                                 pool, mode, change_summary(mode, cands, new_ids))]_vars

\* An EVOLVE pass has returned that rewrote both sections, one from a
\* user's text and the other from synthesized text.
C36_Witness ==
    /\ call.op = "update_projection"
    /\ call.arg = EVOLVE
    /\ \E a \in SectionIds, b \in SectionIds :
          LET ha == Section(projection, a).history
              hb == Section(projection, b).history
          IN  /\ ha # <<>> /\ hb # <<>>
              /\ ha[Len(ha)].trigger = "evolution"
              /\ hb[Len(hb)].trigger = "evolution"
              /\ ha[Len(ha)].content \in EditTexts
              /\ hb[Len(hb)].content \notin EditTexts
              /\ Section(projection, a).content # Section(projection, b).content

\* C37: adding content to the pool (add_content_item or a content.created
\* event) leaves the content_snapshot_ids of an existing projection as it
\* was; only mark_updated replaces it.
C37_SnapshotFrame ==
    [][(call'.op \in {"add_content_item", "content.created"}
            /\ projections # {}) =>
          content_snapshot_ids(projection', pool')
              = content_snapshot_ids(projection, pool)]_vars

\* C38: the version numbers of a section's history entries increase strictly
\* in list order and are all smaller than the section's current version, so
\* no version number names more than one entry and none names the current
\* state.
C38_HistoryVersionsOrdered ==
    LET h == HSec.history IN
    /\ \A i \in 1..Len(h) : \A j \in 1..Len(h) :
            i < j => h[i].version < h[j].version
    /\ \A i \in 1..Len(h) : h[i].version < HSec.version
    /\ \A n \in 1..HSec.version :
            Cardinality({i \in 1..Len(h) : h[i].version = n}) <= 1

\* A revert has succeeded on a section whose history holds entries saved by
\* update_content, by finish_editing and by revert_to_version.
C38_Witness ==
    /\ call.op = "revert_to_version"
    /\ call.ret
    /\ \A trigger \in {"regeneration", "manual_edit", "revert"} :
          \E i \in 1..Len(HSec.history) : HSec.history[i].trigger = trigger

\* C39: a section in state EMPTY has empty content, an empty history and
\* version 1, and no operation moves a section from another state to EMPTY.
C39_EmptyIsPristine ==
    /\ [](LSec.state = EMPTY =>
            /\ LSec.content = EmptyText
            /\ LSec.history = <<>>
            /\ LSec.version = 1)
    /\ [][LSec'.state = EMPTY => LSec.state = EMPTY]_vars

\* A revert was asked of a section that is still EMPTY and found nothing.
C39_Witness ==
    /\ call.op = "revert_to_version"
    /\ ~call.ret
    /\ LSec.state = EMPTY

====
